---- MODULE Spec2Model ----
(***************************************************************************)
(* A model of the ShapeShyft API: the execution orchestrator of            *)
(* routes/ai.ts, the owner's routes, the provider factory and the provider *)
(* adapters, over a relational store of projects, endpoints, keys and an   *)
(* append-only analytics log.  Each action is a handler from one awaited   *)
(* statement to the next.                                                  *)
(***************************************************************************)
EXTENDS Integers, Sequences, FiniteSets, TLC

VARIABLES
    endpointsTable,  \* which shapeshyft.endpoints the database holds
    projects,        \* shapeshyft.projects rows
    endpoints,       \* shapeshyft.endpoints rows
    llmApiKeys,      \* shapeshyft.llm_api_keys rows
    usageAnalytics,  \* shapeshyft.usage_analytics, in insertion order
    reqs,            \* the consumer requests: position, inputs, locals, response
    factory,         \* the last createLLMProvider call made on its own
    call,            \* the last library function called on its own: name, arguments, result
    admin            \* the requests to the owner's routes: position, inputs, response

vars == <<endpointsTable, projects, endpoints, llmApiKeys, usageAnalytics, reqs, factory, call, admin>>

(***************************************************************************)
(* Bounds                                                                  *)
(***************************************************************************)
MaxRequests == 1     \* consumer requests served in Spec
MaxUpdates == 1      \* updates of the owner served in Spec
MaxConcurrent == 2   \* concurrent executions of one endpoint in SpecConcurrent
MaxAdmin == 2        \* concurrent requests to the owner's routes in SpecAdmin
MaxLookups == 2      \* consumer requests served in SpecActivation

\* Optional values (null / undefined in the source) are sequences of length <= 1.
None == <<>>
Some(x) == <<x>>

\* No library function has been called yet.
NoCall == [fn |-> "", args |-> <<>>, result |-> <<>>]

(***************************************************************************)
(* Closed enumerations                                                     *)
(***************************************************************************)
\* src/src/db/schema.ts llmProviderEnum
LlmProviders == {"openai", "gemini", "anthropic", "llm_server"}
\* src/src/db/schema.ts httpMethodEnum
HttpMethods == {"GET", "POST"}
\* The two tables the endpoints rows can live in: the one initDatabase creates
\* (src/src/routes/ai.ts, endpoint_type NOT NULL) and the one src/src/db/schema.ts
\* declares (no endpoint_type column)
EndpointsTables == {"initDatabase", "schema"}

\* unnamed/part_002 callsLLM
callsLLM(endpointType) ==
    \/ endpointType = <<"structured_in_structured_out">>
    \/ endpointType = <<"text_in_structured_out">>

\* endpoint.endpoint_type === "text_in_structured_out" ||
\* endpoint.endpoint_type === "text_in_api_out"
IsTextKind(endpointType) ==
    endpointType \in {<<"text_in_structured_out">>, <<"text_in_api_out">>}

\* The kinds that only build the provider payload.
IsPayloadOnlyKind(endpointType) ==
    endpointType \in {<<"structured_in_api_out">>, <<"text_in_api_out">>}

(***************************************************************************)
(* Secret-at-rest encryption (lib/encryption)                              *)
(***************************************************************************)
\* The plaintext API keys users register.
ApiKeyPlaintexts == {"sk-live"}

\* process.env.ENCRYPTION_KEY, as its characters: unset, too short, and the
\* 64 hex characters the tests' setup gives it
HexDigits == <<"0", "1", "2", "3", "4", "5", "6", "7", "8", "9",
               "a", "b", "c", "d", "e", "f">>
HexKey == [i \in 1..64 |-> HexDigits[((i - 1) % 16) + 1]]
ShortKey == SubSeq(HexKey, 1, 10)
\* 64 characters that are not hex digits: Buffer.from(keyHex, "hex") is empty
NonHexKey == [i \in 1..64 |-> "z"]
EnvKeys == {<<>>, <<ShortKey>>, <<NonHexKey>>, <<HexKey>>}
ENCRYPTION_KEY == <<HexKey>>

\* getEncryptionKey: the message it throws, "" when it returns the key
getEncryptionKey(keyHex) ==
    IF keyHex = <<>> THEN "Missing required env ENCRYPTION_KEY"
    ELSE IF Len(keyHex[1]) # 64
    THEN "ENCRYPTION_KEY must be 64 hex characters (32 bytes)"
    ELSE ""

\* createCipheriv, createDecipheriv: the message thrown for an IV that is not
\* 16 bytes or a key that is not 32 bytes, "" when the cipher is made
createCipheriv(keyHex, ivIs16Bytes) ==
    IF ~ivIs16Bytes THEN "Invalid initialization vector"
    ELSE IF \E i \in 1..Len(keyHex[1]) :
                \A d \in DOMAIN HexDigits : HexDigits[d] # keyHex[1][i]
    THEN "Invalid key length"
    ELSE ""

\* An IV, as hex: of its 16 bytes the first and the last, each 0 or 1
IvOf(first, last) ==
    (IF first = 0 THEN "0" ELSE "1") \o (IF last = 0 THEN "0" ELSE "1")
Ivs == {IvOf(first, last) : first \in {0, 1}, last \in {0, 1}}
\* randomBytes(IV_LENGTH): the IVs the model draws
RandomIvs == {IvOf(0, 0), IvOf(1, 1)}
LastByte(iv) == CHOOSE last \in {0, 1} : \E first \in {0, 1} : iv = IvOf(first, last)

\* cipher.update + cipher.final: the ciphertext of a plaintext under an IV
Ciphertext(plainText, iv) == "aes256cbc(" \o plainText \o "," \o iv \o ")"

\* encryptApiKey: AES-256-CBC under the process secret and a fresh random IV;
\* the ciphertext and the IV are hex strings, neither equal to the plaintext.
encryptApiKey(keyHex, plainText, iv) ==
    IF getEncryptionKey(keyHex) # ""
    THEN [ok |-> FALSE, encrypted |-> "", iv |-> "", error |-> getEncryptionKey(keyHex)]
    ELSE IF createCipheriv(keyHex, TRUE) # ""
    THEN [ok |-> FALSE, encrypted |-> "", iv |-> "",
          error |-> createCipheriv(keyHex, TRUE)]
    ELSE [ok |-> TRUE, encrypted |-> Ciphertext(plainText, iv), iv |-> iv, error |-> ""]

\* The plaintext a wrong IV with the right last byte gives: CBC applies the IV
\* to the first block only, so the first character changes ('s' xor 1 is 'r')
\* and the padding stays valid.
FirstByteFlipped(plainText) ==
    IF plainText = "sk-live" THEN "rk-live" ELSE "?" \o plainText

\* decryptApiKey: the inverse of encryptApiKey under the IV of the
\* encryption; under an IV whose last byte differs the padding is broken and
\* decipher.final throws, as it does on a ciphertext that is not the
\* encryption of anything under the process secret.
decryptApiKey(keyHex, encrypted, ivHex) ==
    IF getEncryptionKey(keyHex) # ""
    THEN [ok |-> FALSE, value |-> "", error |-> getEncryptionKey(keyHex)]
    ELSE IF createCipheriv(keyHex, ivHex \in Ivs) # ""
    THEN [ok |-> FALSE, value |-> "", error |-> createCipheriv(keyHex, ivHex \in Ivs)]
    ELSE IF \E p \in ApiKeyPlaintexts : encrypted = Ciphertext(p, ivHex)
    THEN [ok |-> TRUE,
          value |-> CHOOSE p \in ApiKeyPlaintexts : encrypted = Ciphertext(p, ivHex),
          error |-> ""]
    ELSE IF \E p \in ApiKeyPlaintexts, iv \in Ivs :
               encrypted = Ciphertext(p, iv) /\ LastByte(iv) = LastByte(ivHex)
    THEN [ok |-> TRUE,
          value |-> FirstByteFlipped(
                        CHOOSE p \in ApiKeyPlaintexts :
                            \E iv \in Ivs : encrypted = Ciphertext(p, iv)),
          error |-> ""]
    ELSE [ok |-> FALSE, value |-> "", error |-> "bad decrypt"]

(***************************************************************************)
(* Provider adapters: construction, and the provider factory               *)
(***************************************************************************)
\* JavaScript truthiness of an optional string: present and not empty.
Truthy(o) == o # None /\ o[1] # ""

\* a ?? b on optional values
Coalesce(a, b) == IF a # None THEN a ELSE b

NoAdapter == [providerName |-> "", credential |-> "", defaultModel |-> ""]
Constructed(a) == [ok |-> TRUE, adapter |-> a, error |-> ""]
Thrown(msg) == [ok |-> FALSE, adapter |-> NoAdapter, error |-> msg]

\* The mutant of OpenAIProvider: the constructor does not check the key.
OpenAIProvider_unchecked(config) ==
    Constructed([providerName |-> "openai",
                 credential |-> IF config.apiKey = None THEN "" ELSE config.apiKey[1],
                 defaultModel |-> Coalesce(config.model, Some("gpt-4o-mini"))[1]])

\* OpenAIProvider.constructor
OpenAIProvider(config) ==
    IF ~Truthy(config.apiKey)
    THEN Thrown("OpenAI API key is required")
    ELSE Constructed([providerName |-> "openai",
                      credential |-> config.apiKey[1],
                      defaultModel |-> Coalesce(config.model, Some("gpt-4o-mini"))[1]])

\* AnthropicProvider.constructor
AnthropicProvider(config) ==
    IF ~Truthy(config.apiKey)
    THEN Thrown("Anthropic API key is required")
    ELSE Constructed([providerName |-> "anthropic",
                      credential |-> config.apiKey[1],
                      defaultModel |->
                          Coalesce(config.model, Some("claude-3-5-sonnet-20241022"))[1]])

\* GeminiProvider.constructor
GeminiProvider(config) ==
    IF ~Truthy(config.apiKey)
    THEN Thrown("Gemini API key is required")
    ELSE Constructed([providerName |-> "gemini",
                      credential |-> config.apiKey[1],
                      defaultModel |-> Coalesce(config.model, Some("gemini-1.5-flash"))[1]])

\* CustomLLMProvider.constructor (it keeps no default model)
CustomLLMProvider(config) ==
    IF ~Truthy(config.endpointUrl)
    THEN Thrown("LLM Server endpoint URL is required")
    ELSE Constructed([providerName |-> "llm_server",
                      credential |-> config.endpointUrl[1],
                      defaultModel |-> "custom"])

\* The mutant of createLLMProvider: the default branch falls back to OpenAI.
createLLMProvider_fallback(providerType, config) ==
    CASE providerType = "anthropic" -> AnthropicProvider(config)
      [] providerType = "gemini" -> GeminiProvider(config)
      [] providerType = "llm_server" -> CustomLLMProvider(config)
      [] OTHER -> OpenAIProvider(config)

\* createLLMProvider
createLLMProvider(providerType, config) ==
    CASE providerType = "openai" -> OpenAIProvider(config)
      [] providerType = "anthropic" -> AnthropicProvider(config)
      [] providerType = "gemini" -> GeminiProvider(config)
      [] providerType = "llm_server" -> CustomLLMProvider(config)
      [] OTHER -> Thrown("Unknown provider type: " \o providerType)

(***************************************************************************)
(* Cost estimator (services/llm/types.ts)                                  *)
(***************************************************************************)
\* COST_PER_MILLION_TOKENS, each rate in tenths of a cent (7.5 -> 75).
CostModels == {"gpt-4o", "gpt-4o-mini", "gpt-4-turbo", "gpt-3.5-turbo",
               "claude-3-5-sonnet-20241022", "claude-3-opus-20240229",
               "claude-3-haiku-20240307", "gemini-1.5-pro", "gemini-1.5-flash",
               "gemini-2.0-flash-exp", "default"}

COST_PER_MILLION_TOKENS(model) ==
    CASE model = "gpt-4o" -> [input |-> 2500, output |-> 10000]
      [] model = "gpt-4o-mini" -> [input |-> 150, output |-> 600]
      [] model = "gpt-4-turbo" -> [input |-> 10000, output |-> 30000]
      [] model = "gpt-3.5-turbo" -> [input |-> 500, output |-> 1500]
      [] model = "claude-3-5-sonnet-20241022" -> [input |-> 3000, output |-> 15000]
      [] model = "claude-3-opus-20240229" -> [input |-> 15000, output |-> 75000]
      [] model = "claude-3-haiku-20240307" -> [input |-> 250, output |-> 1250]
      [] model = "gemini-1.5-pro" -> [input |-> 1250, output |-> 5000]
      [] model = "gemini-1.5-flash" -> [input |-> 75, output |-> 300]
      [] model = "gemini-2.0-flash-exp" -> [input |-> 0, output |-> 0]
      [] model = "default" -> [input |-> 1000, output |-> 3000]

\* The names every object inherits from Object.prototype: the lookup
\* COST_PER_MILLION_TOKENS[model] finds a value for them that is not
\* null or undefined and has no input and no output rate.
InheritedKeys ==
    {"constructor", "toString", "valueOf", "hasOwnProperty", "__proto__",
     "isPrototypeOf", "propertyIsEnumerable", "toLocaleString",
     "__defineGetter__", "__defineSetter__", "__lookupGetter__", "__lookupSetter__"}

\* (inputTokens * costs.input + outputTokens * costs.output) / 100000, the
\* cost in hundredths of a cent, as its whole part and the remaining
\* hundred-thousandths; the token counts are taken three digits at a time.
ExactCost(costs, inputTokens, outputTokens) ==
    LET Units(t) == t % 1000
        Thousands(t) == (t \div 1000) % 1000
        Millions(t) == t \div 1000000
        a0 == Units(inputTokens) * costs.input + Units(outputTokens) * costs.output
        a1 == Thousands(inputTokens) * costs.input
              + Thousands(outputTokens) * costs.output
        a2 == Millions(inputTokens) * costs.input + Millions(outputTokens) * costs.output
        b == a1 + a0 \div 1000
    IN [whole |-> a2 * 10 + b \div 100, rest |-> (b % 100) * 1000 + (a0 % 1000)]

\* Math.round of an exact cost: half rounds up.
HalfUp(cost) == cost.whole + (IF 2 * cost.rest >= 100000 THEN 1 ELSE 0)

\* The token counts the estimator is called with
TokenCounts == {0, 7, 12, 140, 1000, 1000000}

\* The calls, among those with TokenCounts, whose exact cost ends in half a
\* hundredth and whose sum in IEEE doubles lies below that half:
\* (140 / 1000000) * 250 * 100 is 3.4999999999999996, and
\* ((140 / 1000000) * 25 + (12 / 1000000) * 125) * 100 is 0.49999999999999994.
BelowHalfInDoubles ==
    {<<"gpt-4o", 140, 0>>, <<"gpt-4o", 140, 1000>>,
     <<"claude-3-haiku-20240307", 140, 12>>}

\* estimateCost, in hundredths of a cent (the returned number times 100);
\* None is NaN, the result when a token count or a rate is undefined.
estimateCost(model, inputTokens, outputTokens) ==
    LET costs == IF model \in CostModels
                 THEN COST_PER_MILLION_TOKENS(model)
                 ELSE COST_PER_MILLION_TOKENS("default")
    IN IF inputTokens = None \/ outputTokens = None \/ model \in InheritedKeys
       THEN None
       ELSE IF <<model, inputTokens[1], outputTokens[1]>> \in BelowHalfInDoubles
       THEN Some(ExactCost(costs, inputTokens[1], outputTokens[1]).whole)
       ELSE Some(HalfUp(ExactCost(costs, inputTokens[1], outputTokens[1])))

(***************************************************************************)
(* JSON values and text                                                    *)
(***************************************************************************)
\* A JSON value is tagged with its kind; an object keeps its members in
\* insertion order, as Object.entries and JSON.stringify walk them.
JNull == [t |-> "null", v |-> <<>>]
\* undefined, the value of a property that is not there
JUndefined == [t |-> "undefined", v |-> <<>>]
JStr(s) == [t |-> "string", v |-> s]
JNum(n) == [t |-> "number", v |-> n]
JBool(b) == [t |-> "boolean", v |-> b]
JArr(items) == [t |-> "array", v |-> items]
Member(key, value) == [k |-> key, v |-> value]
JObj(members) == [t |-> "object", v |-> members]

\* Object.keys(obj)
Keys(obj) == [i \in 1..Len(obj.v) |-> obj.v[i].k]

\* key in obj
Has(obj, key) == \E i \in 1..Len(obj.v) : obj.v[i].k = key

\* obj[key]: None is undefined
Get(obj, key) ==
    IF Has(obj, key)
    THEN Some(obj.v[CHOOSE i \in 1..Len(obj.v) : obj.v[i].k = key].v)
    ELSE None

\* obj.a.b of nested JSON objects; None where a step is missing
Path(value, keys) ==
    LET RECURSIVE Walk(_, _)
        Walk(o, i) ==
            IF i > Len(keys) \/ o = None THEN o
            ELSE IF o[1].t # "object" THEN None
            ELSE Walk(Get(o[1], keys[i]), i + 1)
    IN Walk(Some(value), 1)

\* a ?? b on a JSON value that may be undefined or null
JCoalesce(o, default) == IF o = None \/ o[1].t = "null" THEN default ELSE o[1]

\* The grave accent, which a string of this language cannot hold, is written
\* as an apostrophe; three of them fence a code block.
Backtick == "'"
Fence == Backtick \o Backtick \o Backtick

\* Truthiness of a JSON value that may be undefined
JTruthy(o) ==
    /\ o # None
    /\ CASE o[1].t = "null" -> FALSE
         [] o[1].t = "string" -> o[1].v # ""
         [] o[1].t = "number" -> o[1].v # 0
         [] o[1].t = "boolean" -> o[1].v
         [] OTHER -> TRUE

\* delete obj[key] on a copy
RECURSIVE WithoutKey(_, _)
WithoutKey(members, key) ==
    IF members = <<>> THEN <<>>
    ELSE (IF members[1].k = key THEN <<>> ELSE <<members[1]>>)
         \o WithoutKey(Tail(members), key)

\* String(n) of the small integers the schemas use
NumStr(n) ==
    CASE n = 0 -> "0" [] n = 1 -> "1" [] n = 2 -> "2" [] n = 3 -> "3"
      [] n = 4 -> "4" [] n = 5 -> "5" [] n = 6 -> "6" [] n = 7 -> "7"
      [] n = 8 -> "8" [] n = 9 -> "9" [] n = 10 -> "10" [] n = 100 -> "100"

\* String(v) of a primitive JSON value
JsString(value) ==
    CASE value.t = "string" -> value.v
      [] value.t = "number" -> NumStr(value.v)
      [] value.t = "boolean" -> IF value.v THEN "true" ELSE "false"
      [] value.t = "null" -> "null"

\* A text is its lines: the empty string is one empty line.
EmptyText == <<"">>

\* a + b on texts: the last line of a runs into the first line of b
Cat(a, b) ==
    SubSeq(a, 1, Len(a) - 1) \o <<a[Len(a)] \o b[1]>> \o Tail(b)

\* parts.join("\n")
RECURSIVE JoinLines(_)
JoinLines(parts) ==
    IF parts = <<>> THEN EmptyText
    ELSE IF Len(parts) = 1 THEN parts[1]
    ELSE parts[1] \o JoinLines(Tail(parts))

\* parts.join(", ") of strings
RECURSIVE JoinComma(_)
JoinComma(strings) ==
    IF strings = <<>> THEN ""
    ELSE IF Len(strings) = 1 THEN strings[1]
    ELSE strings[1] \o ", " \o JoinComma(Tail(strings))

\* "  ".repeat(depth)
RECURSIVE Indent(_)
Indent(depth) == IF depth = 0 THEN "" ELSE "  " \o Indent(depth - 1)

\* Every line of a text behind a prefix
Prefixed(prefix, text) == [i \in 1..Len(text) |-> prefix \o text[i]]

\* JSON.stringify(value, null, 2), as its lines
RECURSIVE Stringify2(_)
Stringify2(value) ==
    LET Item(i, n, lines) ==
            \* an element's lines, indented, with the comma that follows it
            LET body == Prefixed("  ", lines)
            IN IF i < n
               THEN SubSeq(body, 1, Len(body) - 1) \o <<body[Len(body)] \o ",">>
               ELSE body
        RECURSIVE Items(_, _)
        Items(i, texts) ==
            IF i > Len(texts) THEN <<>>
            ELSE Item(i, Len(texts), texts[i]) \o Items(i + 1, texts)
    IN CASE value.t = "string" -> <<"\"" \o value.v \o "\"">>
         [] value.t \in {"number", "boolean", "null"} -> <<JsString(value)>>
         [] value.t = "array" ->
              IF value.v = <<>> THEN <<"[]">>
              ELSE <<"[">>
                   \o Items(1, [i \in 1..Len(value.v) |-> Stringify2(value.v[i])])
                   \o <<"]">>
         [] value.t = "object" ->
              IF value.v = <<>> THEN <<"{}">>
              ELSE <<"{">>
                   \o Items(1, [i \in 1..Len(value.v) |->
                                   Cat(<<"\"" \o value.v[i].k \o "\": ">>,
                                       Stringify2(value.v[i].v))])
                   \o <<"}">>


(***************************************************************************)
(* Provider adapters: generate and buildApiPayload                         *)
(***************************************************************************)
\* The usage object of a provider response; every count is optional.
RawUsage(p, c, t, i, o) ==
    [prompt_tokens |-> p, completion_tokens |-> c, total_tokens |-> t,
     input_tokens |-> i, output_tokens |-> o]

NoUsage == [promptTokens |-> None, completionTokens |-> None, totalTokens |-> None]

\* a + b on numbers that may be undefined (the sum is then NaN)
AddOpt(a, b) == IF a = None \/ b = None THEN None ELSE Some(a[1] + b[1])

Succeeded(content, usage, model, provider, ms) ==
    [ok |-> TRUE, isError |-> FALSE, error |-> "", content |-> content,
     usage |-> usage, model |-> model, provider |-> provider, latencyMs |-> ms]

\* A throw out of generate; isError says the thrown value is an Error.
Raised(msg) ==
    [ok |-> FALSE, isError |-> TRUE, error |-> msg, content |-> "",
     usage |-> NoUsage, model |-> "", provider |-> "", latencyMs |-> 0]

\* interface LLMRequest: systemPrompt, model, temperature and maxTokens are optional
CanonicalRequest(prompt, systemPrompt, outputSchema, model, temperature, maxTokens) ==
    [prompt |-> prompt, systemPrompt |-> systemPrompt, outputSchema |-> outputSchema,
     model |-> model, temperature |-> temperature, maxTokens |-> maxTokens]

\* LLMRequest as the orchestrator builds it (model, temperature, maxTokens unset)
LLMRequest(prompt, systemPrompt, outputSchema) ==
    CanonicalRequest(prompt, Some(systemPrompt), outputSchema, None, None, None)

\* { type: "object" }, the schema of an endpoint that stores none
ObjectSchema == JObj(<<Member("type", JStr("object"))>>)

\* OpenAIProvider.generate, given the provider's reply
OpenAIGenerate(adapter, request, reply) ==
    CASE reply.kind = "transport" -> Raised("Connection error.")
      [] reply.kind = "http_error" -> Raised("500 status code (no body)")
      [] reply.kind = "no_structured" ->
           Raised("Expected function call response from OpenAI")
      [] reply.kind = "bad_json" -> Raised("JSON Parse error: Unexpected identifier")
      [] OTHER ->
           Succeeded(reply.content,
               IF reply.usage = None
               THEN [promptTokens |-> Some(0), completionTokens |-> Some(0),
                     totalTokens |-> Some(0)]
               ELSE [promptTokens |-> Coalesce(reply.usage[1].prompt_tokens, Some(0)),
                     completionTokens |->
                         Coalesce(reply.usage[1].completion_tokens, Some(0)),
                     totalTokens |-> Coalesce(reply.usage[1].total_tokens, Some(0))],
               reply.model, adapter.providerName, reply.ms)

\* response.content.find(block => block.type === "tool_use"): the first such block
FindToolUse(blocks) ==
    LET found == {i \in 1..Len(blocks) : Get(blocks[i], "type") = Some(JStr("tool_use"))}
    IN IF found = {} THEN None
       ELSE Some(blocks[CHOOSE i \in found : \A j \in found : i <= j])

\* AnthropicProvider.generate: the SDK hands over parsed blocks, so a body that
\* is not JSON is the SDK's throw; response.usage is read without a guard.
AnthropicGenerate(adapter, request, reply) ==
    LET toolUseBlock == IF reply.body = None THEN None
                        ELSE FindToolUse(Get(reply.body[1], "content")[1].v)
    IN CASE reply.kind \in {"transport", "bad_json"} -> Raised("Connection error.")
         [] reply.kind = "http_error" -> Raised("500 status code (no body)")
         [] reply.kind = "no_structured" ->
              Raised("Expected tool_use response from Anthropic")
         [] /\ reply.body # None
            /\ \/ toolUseBlock = None
               \/ Get(toolUseBlock[1], "name") # Some(JStr("structured_response")) ->
              Raised("Expected tool_use response from Anthropic")
         [] reply.usage = None ->
              Raised("Cannot read properties of undefined (reading 'input_tokens')")
         [] OTHER ->
              Succeeded(IF reply.body = None THEN reply.content
                        ELSE Get(toolUseBlock[1], "input")[1],
                  [promptTokens |-> reply.usage[1].input_tokens,
                   completionTokens |-> reply.usage[1].output_tokens,
                   totalTokens |-> AddOpt(reply.usage[1].input_tokens,
                                          reply.usage[1].output_tokens)],
                  reply.model, adapter.providerName, reply.ms)

\* GeminiProvider.generate: usageMetadata's promptTokenCount, candidatesTokenCount
\* and totalTokenCount are the reply's prompt_tokens, completion_tokens and
\* total_tokens; a reply without text parses the empty string.
GeminiGenerate(adapter, request, reply) ==
    CASE reply.kind = "transport" -> Raised("fetch failed")
      [] reply.kind = "http_error" -> Raised("[500 Internal Server Error]")
      [] reply.kind = "no_structured" -> Raised("JSON Parse error: Unexpected EOF")
      [] reply.kind = "bad_json" -> Raised("JSON Parse error: Unexpected identifier")
      [] OTHER ->
           Succeeded(reply.content,
               IF reply.usage = None
               THEN [promptTokens |-> Some(0), completionTokens |-> Some(0),
                     totalTokens |-> Some(0)]
               ELSE [promptTokens |-> Coalesce(reply.usage[1].prompt_tokens, Some(0)),
                     completionTokens |->
                         Coalesce(reply.usage[1].completion_tokens, Some(0)),
                     totalTokens |-> Coalesce(reply.usage[1].total_tokens, Some(0))],
               Coalesce(request.model, Some(adapter.defaultModel))[1],
               adapter.providerName, reply.ms)

\* CustomLLMProvider.extractUsage
extractUsage(usage) ==
    IF usage = None
    THEN [promptTokens |-> Some(0), completionTokens |-> Some(0),
          totalTokens |-> Some(0)]
    ELSE LET promptTokens ==
                 Coalesce(usage[1].prompt_tokens,
                          Coalesce(usage[1].input_tokens, Some(0)))
             completionTokens ==
                 Coalesce(usage[1].completion_tokens,
                          Coalesce(usage[1].output_tokens, Some(0)))
         IN [promptTokens |-> promptTokens,
             completionTokens |-> completionTokens,
             totalTokens |-> Coalesce(usage[1].total_tokens,
                                      AddOpt(promptTokens, completionTokens))]

\* The answers a server gives, as JSON text: bare, inside prose, and fenced
Answer(k) == JObj(<<Member("x", JNum(k))>>)
AnswerText(k) == "{\"x\":" \o NumStr(k) \o "}"
ProseText(k) == "Here you go: " \o AnswerText(k) \o " Anything else?"
FencedText(k) == Fence \o "json\n" \o AnswerText(k) \o "\n" \o Fence
AnswerKeys == 0..9

\* Texts are read in pieces: a bracket, a fence, a run of white space and the
\* run of other characters between them are one piece each.
AnswerPieces(k) == <<"{", "\"x\":" \o NumStr(k), "}">>
ProsePieces(k) == <<"Here you go: ">> \o AnswerPieces(k) \o <<" Anything else?">>
FencedPieces(k) == <<Fence, "json", "\n">> \o AnswerPieces(k) \o <<"\n", Fence>>
ArrayPieces == <<"[", "1", "]">>
NestedPieces == <<"{", "\"y\":">> \o AnswerPieces(1) \o <<"}">>

\* Answer texts of a server that say more than one thing
MixedPieces ==
    { \* a bare array, and an object in an object
      ArrayPieces, NestedPieces,
      \* a fence without the language tag, inside prose
      <<"Sure. ", Fence, "\n">> \o AnswerPieces(1) \o <<"\n", Fence, " Done.">>,
      \* a fence whose content is no JSON, and an object after it
      <<Fence, "\n", "x = 1", "\n", Fence, " gives ">> \o AnswerPieces(2),
      \* an object before a fence that holds another
      AnswerPieces(1) \o <<" or ", Fence, "json", "\n">> \o AnswerPieces(2)
          \o <<"\n", Fence>>,
      \* two objects in one text
      AnswerPieces(1) \o <<" or ">> \o AnswerPieces(2),
      \* an object, then braces in the prose after it
      AnswerPieces(3) \o <<" (see ", "{", "docs", "}", ")">>,
      \* a bracketed remark before the object
      <<"[", "note", "]", " ">> \o AnswerPieces(4),
      \* an array, then an object
      ArrayPieces \o <<" and ">> \o AnswerPieces(5),
      \* white space around an object, and around prose
      <<" ", "\n">> \o AnswerPieces(6) \o <<"\n">>,
      <<"\n", "I cannot help", " ">>,
      \* a fence that is never closed
      <<Fence, "json", "\n">> \o AnswerPieces(7),
      \* an array in a fence on one line
      <<Fence>> \o ArrayPieces \o <<Fence>> }

KnownPieces ==
    {AnswerPieces(k) : k \in AnswerKeys} \cup {ProsePieces(k) : k \in AnswerKeys}
        \cup {FencedPieces(k) : k \in AnswerKeys} \cup MixedPieces

RECURSIVE Joined(_)
Joined(pieces) ==
    IF pieces = <<>> THEN "" ELSE Head(pieces) \o Joined(Tail(pieces))

\* The pieces of a text; a text of no bracket, fence or outer white space is
\* one piece
Pieces(text) ==
    IF \E pieces \in KnownPieces : Joined(pieces) = text
    THEN CHOOSE pieces \in KnownPieces : Joined(pieces) = text
    ELSE <<text>>

WhiteSpace == {" ", "\n"}

RECURSIVE trimStart(_)
trimStart(pieces) ==
    IF pieces # <<>> /\ Head(pieces) \in WhiteSpace
    THEN trimStart(Tail(pieces)) ELSE pieces

RECURSIVE trimEnd(_)
trimEnd(pieces) ==
    IF pieces # <<>> /\ pieces[Len(pieces)] \in WhiteSpace
    THEN trimEnd(SubSeq(pieces, 1, Len(pieces) - 1)) ELSE pieces

\* String.prototype.trim
trim(pieces) == trimEnd(trimStart(pieces))

Least(S) == CHOOSE i \in S : \A j \in S : i <= j
Greatest(S) == CHOOSE i \in S : \A j \in S : j <= i

FencesOf(pieces) == {i \in DOMAIN pieces : pieces[i] = Fence}

\* What lies between two fences, without the tag and the white space after it
Fenced(inner) ==
    trimStart(IF inner # <<>> /\ Head(inner) = "json" THEN Tail(inner) ELSE inner)

\* text.match(/```(?:json)?\s*([\s\S]*?)```/)[1]: from the first fence to the
\* nearest fence after it, without the tag and the white space after the tag
codeBlockMatch(pieces) ==
    IF Cardinality(FencesOf(pieces)) < 2 THEN None
    ELSE Some(Fenced(SubSeq(pieces, Least(FencesOf(pieces)) + 1,
                            Least(FencesOf(pieces) \ {Least(FencesOf(pieces))}) - 1)))

Closes(open) == IF open = "{" THEN "}" ELSE "]"

\* The closing brackets after the opening bracket at i, of its kind
ClosersOf(pieces, i) ==
    {j \in DOMAIN pieces : j > i /\ pieces[j] = Closes(pieces[i])}

\* The opening brackets that have a closing bracket of their kind after them
OpenersOf(pieces) ==
    {i \in DOMAIN pieces : pieces[i] \in {"{", "["} /\ ClosersOf(pieces, i) # {}}

\* text.match(/(\{[\s\S]*\}|\[[\s\S]*\])/)[1]: from the leftmost opening
\* bracket that has a closing bracket of its kind after it, to the last
\* closing bracket of that kind
jsonMatch(pieces) ==
    IF OpenersOf(pieces) = {} THEN None
    ELSE Some(SubSeq(pieces, Least(OpenersOf(pieces)),
                     Greatest(ClosersOf(pieces, Least(OpenersOf(pieces))))))

\* JSON.parse(text): None is its SyntaxError
JSONParse(text) ==
    IF \E k \in AnswerKeys : text = AnswerText(k)
    THEN Some(Answer(CHOOSE k \in AnswerKeys : text = AnswerText(k)))
    ELSE IF text = Joined(ArrayPieces) THEN Some(JArr(<<JNum(1)>>))
    ELSE IF text = Joined(NestedPieces) THEN Some(JObj(<<Member("y", Answer(1))>>))
    ELSE None

\* The text the matches of extractJson leave it with
Extracted(pieces, codeBlock, span) ==
    IF codeBlock # None /\ JSONParse(Joined(trim(codeBlock[1]))) # None
    THEN Joined(trim(codeBlock[1]))
    ELSE IF span # None /\ JSONParse(Joined(span[1])) # None
    THEN Joined(span[1])
    ELSE Joined(trim(pieces))

\* CustomLLMProvider.extractJson: the fenced block when it parses, else the
\* bracketed span when it parses, else the trimmed text
extractJson(text) ==
    Extracted(Pieces(text), codeBlockMatch(Pieces(text)), jsonMatch(Pieces(text)))

Parsed(content) == [ok |-> TRUE, content |-> content, error |-> ""]
ParseFailed(msg) == [ok |-> FALSE, content |-> JNull, error |-> msg]

\* Array.isArray(x) && x, of a value that may be undefined
IsArray(o) == o # None /\ o[1].t = "array"
IsString(o) == o # None /\ o[1].t = "string"

\* A piece as JSON.stringify writes it inside a string: a line feed and a
\* double quote are escaped, and an escaped line feed is no white space
Escaped(piece) ==
    IF piece = "\n" THEN "\\n"
    ELSE IF \E k \in AnswerKeys : piece = AnswerPieces(k)[2]
    THEN "\\\"x\\\":" \o NumStr(CHOOSE k \in AnswerKeys : piece = AnswerPieces(k)[2])
    ELSE IF piece = "\"y\":" THEN "\\\"y\\\":"
    ELSE piece

\* JSON.stringify(value), in pieces
RECURSIVE StringifyPieces(_)
RECURSIVE StringifyItems(_)
RECURSIVE StringifyMembers(_)
StringifyItems(items) ==
    IF items = <<>> THEN <<>>
    ELSE StringifyPieces(Head(items))
         \o (IF Len(items) > 1 THEN <<",">> \o StringifyItems(Tail(items)) ELSE <<>>)
StringifyMembers(members) ==
    IF members = <<>> THEN <<>>
    ELSE <<"\"" \o Head(members).k \o "\":">> \o StringifyPieces(Head(members).v)
         \o (IF Len(members) > 1 THEN <<",">> \o StringifyMembers(Tail(members))
             ELSE <<>>)
StringifyPieces(value) ==
    CASE value.t = "object" -> <<"{">> \o StringifyMembers(value.v) \o <<"}">>
      [] value.t = "array" -> <<"[">> \o StringifyItems(value.v) \o <<"]">>
      [] value.t = "string" ->
           <<"\"">> \o [i \in 1..Len(Pieces(value.v)) |-> Escaped(Pieces(value.v)[i])]
               \o <<"\"">>
      [] OTHER -> <<JsString(value)>>

\* extractJson and JSON.parse of JSON.stringify(result), result an object: a
\* fenced block inside the text is taken when it parses; otherwise the
\* bracketed span, which is the whole text and parses to result
StringifiedAnswer(pieces, result) ==
    IF /\ codeBlockMatch(pieces) # None
       /\ JSONParse(Joined(trim(codeBlockMatch(pieces)[1]))) # None
    THEN [ok |-> TRUE, content |-> JSONParse(Joined(trim(codeBlockMatch(pieces)[1])))[1],
          error |-> ""]
    ELSE [ok |-> TRUE, content |-> result, error |-> ""]

\* The tail of parseResponse: extractJson, then JSON.parse
ParseText(rawResponse) ==
    IF rawResponse.t \in {"undefined", "null"}
    THEN ParseFailed("Cannot read properties of " \o rawResponse.t
                         \o " (reading 'match')")
    ELSE IF rawResponse.t # "string"
    THEN ParseFailed("text.match is not a function")
    ELSE LET content == JSONParse(extractJson(rawResponse.v))
         IN IF content = None THEN ParseFailed("JSON Parse error: Unexpected identifier")
            ELSE Parsed(content[1])

\* array[i - 1]: undefined past the end
ItemAt(array, i) == IF i <= Len(array.v) THEN array.v[i] ELSE JUndefined

\* value.key: a TypeError on undefined and null, undefined on a value that is
\* no object or has no such property
Prop(value, key) ==
    IF value.t \in {"undefined", "null"}
    THEN [ok |-> FALSE, value |-> JUndefined,
          error |-> "Cannot read properties of " \o value.t
                        \o " (reading '" \o key \o "')"]
    ELSE [ok |-> TRUE,
          value |-> IF value.t = "object" /\ Has(value, key) THEN Get(value, key)[1]
                    ELSE JUndefined,
          error |-> ""]

\* rawResponse = toolCall.function.arguments, then the tail of parseResponse
ParseToolCall(toolCall) ==
    IF ~Prop(toolCall, "function").ok
    THEN ParseFailed(Prop(toolCall, "function").error)
    ELSE IF ~Prop(Prop(toolCall, "function").value, "arguments").ok
    THEN ParseFailed(Prop(Prop(toolCall, "function").value, "arguments").error)
    ELSE ParseText(Prop(Prop(toolCall, "function").value, "arguments").value)

\* CustomLLMProvider.parseResponse(result), result a JSON object
parseResponse(result) ==
    IF IsArray(Get(result, "choices"))
    THEN IF Get(result, "choices")[1].v = <<>>
         THEN ParseFailed("Cannot read properties of undefined (reading 'message')")
         ELSE LET choice == Get(result, "choices")[1].v[1]
                  message == Get(choice, "message")
                  toolCalls == IF message = None THEN None
                               ELSE Get(message[1], "tool_calls")
                  content == IF message = None THEN None ELSE Get(message[1], "content")
              IN IF IsArray(toolCalls)
                 THEN ParseToolCall(ItemAt(toolCalls[1], 1))
                 ELSE IF JTruthy(content) THEN ParseText(content[1])
                 ELSE IF JTruthy(Get(choice, "text")) THEN ParseText(Get(choice, "text")[1])
                 ELSE ParseFailed("Unable to parse OpenAI-format response")
    ELSE IF IsArray(Get(result, "content"))
    THEN IF Get(result, "content")[1].v = <<>>
         THEN ParseFailed("Cannot read properties of undefined (reading 'type')")
         ELSE LET contentBlock == Get(result, "content")[1].v[1]
              IN IF Get(contentBlock, "type") = Some(JStr("tool_use"))
                 THEN Parsed(IF Get(contentBlock, "input") = None THEN JUndefined
                             ELSE Get(contentBlock, "input")[1])
                 ELSE IF JTruthy(Get(contentBlock, "text"))
                 THEN ParseText(Get(contentBlock, "text")[1])
                 ELSE ParseFailed("Unable to parse Anthropic-format response")
    ELSE IF IsString(Get(result, "response")) THEN ParseText(Get(result, "response")[1])
    ELSE IF IsString(Get(result, "text")) THEN ParseText(Get(result, "text")[1])
    ELSE IF IsString(Get(result, "output")) THEN ParseText(Get(result, "output")[1])
    ELSE StringifiedAnswer(StringifyPieces(result), result)

\* CustomLLMProvider.generate after parseResponse returned or threw
CustomParsed(adapter, request, reply, parsed) ==
    IF ~parsed.ok THEN Raised(parsed.error)
    ELSE Succeeded(parsed.content, extractUsage(reply.usage),
                   Coalesce(request.model, Some("custom"))[1],
                   adapter.providerName, reply.ms)

\* CustomLLMProvider.generate
CustomGenerate(adapter, request, reply) ==
    CASE reply.kind = "transport" -> Raised("Unable to connect")
      [] reply.kind = "http_error" ->
           Raised("LLM Server error (500): upstream failure")
      [] reply.kind = "no_structured" ->
           Raised("Unable to parse OpenAI-format response")
      [] reply.kind = "bad_json" -> Raised("JSON Parse error: Unexpected identifier")
      [] reply.body # None ->
           CustomParsed(adapter, request, reply, parseResponse(reply.body[1]))
      [] OTHER ->
           Succeeded(reply.content, extractUsage(reply.usage),
                     Coalesce(request.model, Some("custom"))[1],
                     adapter.providerName, reply.ms)

\* ILLMProvider.generate, dispatched on the adapter's class
generate(adapter, request, reply) ==
    CASE adapter.providerName = "openai" -> OpenAIGenerate(adapter, request, reply)
      [] adapter.providerName = "anthropic" -> AnthropicGenerate(adapter, request, reply)
      [] adapter.providerName = "gemini" -> GeminiGenerate(adapter, request, reply)
      [] OTHER -> CustomGenerate(adapter, request, reply)

\* A key whose value is undefined is left out of the serialized payload.
OptMember(key, o) == IF o = None THEN <<>> ELSE <<Member(key, o[1])>>

\* if (request.systemPrompt): a present, non-empty system prompt
HasSystemPrompt(request) ==
    request.systemPrompt # None /\ request.systemPrompt[1] # EmptyText

\* The message list of the OpenAI-compatible payloads
ChatMessages(request) ==
    (IF HasSystemPrompt(request)
     THEN <<JObj(<<Member("role", JStr("system")),
                   Member("content", JStr(request.systemPrompt[1]))>>)>>
     ELSE <<>>)
    \o <<JObj(<<Member("role", JStr("user")),
                Member("content", JStr(request.prompt))>>)>>

\* The function tool both OpenAI-compatible payloads declare
FunctionTool(parameters) ==
    JObj(<<Member("type", JStr("function")),
           Member("function",
               JObj(<<Member("name", JStr("structured_response")),
                      Member("description",
                          JStr("Generate structured response matching the schema")),
                      Member("parameters", parameters)>>))>>)

ForcedFunction ==
    JObj(<<Member("type", JStr("function")),
           Member("function", JObj(<<Member("name", JStr("structured_response"))>>))>>)

\* The mutant of OpenAIBuildApiPayload: the tool is declared but not forced.
OpenAIBuildApiPayload_auto(adapter, request) ==
    JObj(<<Member("model", JStr(Coalesce(request.model, Some(adapter.defaultModel))[1])),
           Member("messages", JArr(ChatMessages(request))),
           Member("tools", JArr(<<FunctionTool(request.outputSchema)>>)),
           Member("tool_choice", JStr("auto")),
           Member("temperature", JNum(Coalesce(request.temperature, Some(0))[1]))>>
         \o OptMember("max_tokens", IF request.maxTokens = None THEN None
                                    ELSE Some(JNum(request.maxTokens[1]))))

\* OpenAIProvider.buildApiPayload
OpenAIBuildApiPayload(adapter, request) ==
    JObj(<<Member("model", JStr(Coalesce(request.model, Some(adapter.defaultModel))[1])),
           Member("messages", JArr(ChatMessages(request))),
           Member("tools", JArr(<<FunctionTool(request.outputSchema)>>)),
           Member("tool_choice", ForcedFunction),
           Member("temperature", JNum(Coalesce(request.temperature, Some(0))[1]))>>
         \o OptMember("max_tokens", IF request.maxTokens = None THEN None
                                    ELSE Some(JNum(request.maxTokens[1]))))

\* AnthropicProvider.buildApiPayload
AnthropicBuildApiPayload(adapter, request) ==
    JObj(<<Member("model", JStr(Coalesce(request.model, Some(adapter.defaultModel))[1])),
           Member("max_tokens", JNum(Coalesce(request.maxTokens, Some(4096))[1]))>>
         \o OptMember("system", IF request.systemPrompt = None THEN None
                                ELSE Some(JStr(request.systemPrompt[1])))
         \o <<Member("messages",
                  JArr(<<JObj(<<Member("role", JStr("user")),
                                Member("content", JStr(request.prompt))>>)>>)),
              Member("tools",
                  JArr(<<JObj(<<Member("name", JStr("structured_response")),
                                Member("description",
                                    JStr("Generate structured response matching the schema")),
                                Member("input_schema", request.outputSchema)>>)>>)),
              Member("tool_choice",
                  JObj(<<Member("type", JStr("tool")),
                         Member("name", JStr("structured_response"))>>)),
              Member("temperature", JNum(Coalesce(request.temperature, Some(0))[1]))>>)

\* The keywords convertToGeminiSchema deletes
UnsupportedKeywords == <<"$schema", "$id", "definitions", "$defs">>

\* The mutant of convertToGeminiSchema: the schema is passed on untouched.
convertToGeminiSchema_verbatim(jsonSchema) == jsonSchema

\* GeminiProvider.convertToGeminiSchema: a shallow copy of the schema, the
\* unsupported keywords deleted from the copy's own keys
convertToGeminiSchema(jsonSchema) ==
    LET RECURSIVE Strip(_, _)
        Strip(members, i) ==
            IF i > Len(UnsupportedKeywords) THEN members
            ELSE Strip(WithoutKey(members, UnsupportedKeywords[i]), i + 1)
    IN JObj(Strip(jsonSchema.v, 1))

\* GeminiProvider.buildApiPayload
GeminiBuildApiPayload(adapter, request) ==
    JObj(<<Member("model", JStr(Coalesce(request.model, Some(adapter.defaultModel))[1])),
           Member("contents",
               JArr(<<JObj(<<Member("parts",
                   JArr(<<JObj(<<Member("text", JStr(request.prompt))>>)>>))>>)>>))>>
         \o (IF HasSystemPrompt(request)
             THEN <<Member("systemInstruction",
                        JObj(<<Member("parts",
                            JArr(<<JObj(<<Member("text",
                                JStr(request.systemPrompt[1]))>>)>>))>>))>>
             ELSE <<>>)
         \o <<Member("generationConfig",
                  JObj(<<Member("responseMimeType", JStr("application/json")),
                         Member("responseSchema",
                             convertToGeminiSchema(request.outputSchema)),
                         Member("temperature",
                             JNum(Coalesce(request.temperature, Some(0))[1]))>>
                       \o OptMember("maxOutputTokens",
                              IF request.maxTokens = None THEN None
                              ELSE Some(JNum(request.maxTokens[1])))))>>)

\* CustomLLMProvider.buildApiPayload
CustomBuildApiPayload(adapter, request) ==
    JObj(<<Member("messages", JArr(ChatMessages(request))),
           Member("temperature", JNum(Coalesce(request.temperature, Some(0))[1]))>>
         \o OptMember("max_tokens", IF request.maxTokens = None THEN None
                                    ELSE Some(JNum(request.maxTokens[1])))
         \o <<Member("response_format", JObj(<<Member("type", JStr("json_object"))>>)),
              Member("tools", JArr(<<FunctionTool(request.outputSchema)>>)),
              Member("tool_choice", ForcedFunction)>>)

\* ILLMProvider.buildApiPayload, dispatched on the adapter's class
buildApiPayload(adapter, request) ==
    CASE adapter.providerName = "openai" -> OpenAIBuildApiPayload(adapter, request)
      [] adapter.providerName = "anthropic" -> AnthropicBuildApiPayload(adapter, request)
      [] adapter.providerName = "gemini" -> GeminiBuildApiPayload(adapter, request)
      [] OTHER -> CustomBuildApiPayload(adapter, request)


(***************************************************************************)
(* Prompt assembly (lib/prompt-builder, lib/api-helper), by its sections   *)
(***************************************************************************)
\* extractConstraints(schema)
extractConstraints(schema) ==
    LET Defined(key, label) ==
            IF Has(schema, key)
            THEN <<label \o JsString(Get(schema, key)[1])>> ELSE <<>>
        Present(key, label) ==
            IF JTruthy(Get(schema, key))
            THEN <<label \o JsString(Get(schema, key)[1])>> ELSE <<>>
    IN JoinComma(Defined("minimum", "min: ") \o Defined("maximum", "max: ")
                 \o Defined("minLength", "min length: ")
                 \o Defined("maxLength", "max length: ")
                 \o Present("pattern", "pattern: ") \o Present("format", "format: "))

\* The markers of a property line
RequiredMarker == "(required)"
OptionalMarker == "(optional)"

\* The line schemaToPromptInstructions writes for one property
PropertyLine(depth, propName, propType, reqMarker, propDesc) ==
    Indent(depth) \o "- " \o Backtick \o propName \o Backtick \o " (" \o propType
    \o ") " \o reqMarker
    \o ": " \o propDesc

\* The mutant of IsRequired: every property is marked required.
IsRequired_always(required, propName) == TRUE

\* required.includes(propName)
IsRequired(required, propName) ==
    \E i \in 1..Len(required) : required[i] = JStr(propName)

\* schemaToPromptInstructions(schema, depth)
RECURSIVE schemaToPromptInstructions(_, _)
schemaToPromptInstructions(schema, depth) ==
    LET indent == Indent(depth)
        schemaType == JCoalesce(Get(schema, "type"), JStr("object"))
        required == JCoalesce(Get(schema, "required"), JArr(<<>>)).v
        Property(member) ==
            LET prop == member.v
                propType == JCoalesce(Get(prop, "type"), JStr("any"))
                propDesc == JCoalesce(Get(prop, "description"), JStr(""))
                reqMarker == IF IsRequired(required, member.k)
                             THEN RequiredMarker ELSE OptionalMarker
                constraints == extractConstraints(prop)
            IN <<PropertyLine(depth, member.k, JsString(propType), reqMarker,
                              JsString(propDesc))>>
               \o (IF JTruthy(Get(prop, "enum"))
                   THEN <<indent \o "  Allowed values: "
                          \o JoinComma([i \in 1..Len(Get(prop, "enum")[1].v) |->
                                 "\"" \o JsString(Get(prop, "enum")[1].v[i]) \o "\""])>>
                   ELSE <<>>)
               \o (IF constraints # ""
                   THEN <<indent \o "  Constraints: " \o constraints>> ELSE <<>>)
               \o (IF propType = JStr("object") /\ JTruthy(Get(prop, "properties"))
                   THEN <<indent \o "  Properties:">>
                        \o schemaToPromptInstructions(prop, depth + 2)
                   ELSE IF propType = JStr("array") /\ JTruthy(Get(prop, "items"))
                   THEN <<indent \o "  (array of items, each item should have:)">>
                        \o schemaToPromptInstructions(Get(prop, "items")[1], depth + 2)
                   ELSE <<>>)
    IN IF schemaType = JStr("object") /\ JTruthy(Get(schema, "properties"))
       THEN LET properties == Get(schema, "properties")[1].v
            IN JoinLines([i \in 1..Len(properties) |-> Property(properties[i])])
       ELSE EmptyText

\* generateSchemaExample(schema)
RECURSIVE generateSchemaExample(_)
generateSchemaExample(schema) ==
    LET schemaType == JCoalesce(Get(schema, "type"), JStr("object"))
    IN IF Has(schema, "default") THEN Get(schema, "default")[1]
       ELSE IF JTruthy(Get(schema, "enum")) /\ Len(Get(schema, "enum")[1].v) > 0
       THEN Get(schema, "enum")[1].v[1]
       ELSE IF schemaType = JStr("object") /\ JTruthy(Get(schema, "properties"))
       THEN LET properties == Get(schema, "properties")[1].v
            IN JObj([i \in 1..Len(properties) |->
                        Member(properties[i].k, generateSchemaExample(properties[i].v))])
       ELSE IF schemaType = JStr("array")
       THEN IF JTruthy(Get(schema, "items"))
            THEN JArr(<<generateSchemaExample(Get(schema, "items")[1])>>)
            ELSE JArr(<<>>)
       ELSE CASE schemaType = JStr("string") -> JStr("<string>")
              [] schemaType = JStr("number") -> JNum(0)
              [] schemaType = JStr("integer") -> JNum(0)
              [] schemaType = JStr("boolean") -> JBool(TRUE)
              [] OTHER -> JNull

\* isComplexSchema(schema)
isComplexSchema(schema) ==
    /\ JTruthy(Get(schema, "properties"))
    /\ LET properties == Get(schema, "properties")[1].v
       IN \/ Len(properties) > 3
          \/ \E i \in 1..Len(properties) :
                Get(properties[i].v, "type") \in {Some(JStr("object")), Some(JStr("array"))}

\* formatStructuredInput: one "- key: json" line per entry; an entry whose
\* value is an object that is no array is a "- key:" line and one deeper line
\* per entry of the value
formatStructuredInput(entries) ==
    JoinLines([i \in 1..Len(entries) |->
                  IF entries[i].type = "object"
                  THEN <<"- " \o entries[i].key \o ":">>
                       \o [j \in 1..Len(entries[i].entries) |->
                              "    - " \o entries[i].entries[j].key \o ": "
                                  \o entries[i].entries[j].json]
                  ELSE <<"- " \o entries[i].key \o ": " \o entries[i].json>>])

\* typeof inputData === "object" && inputData !== null
IsNonNullObject(inputData) == inputData.kind \in {"object", "array"}

\* JSON.stringify(inputData) of input that is a string, a number, null or an
\* array of numbers
JSONStringify(inputData) ==
    CASE inputData.kind = "string" -> "\"" \o inputData.text \o "\""
      [] inputData.kind = "array" -> "[" \o inputData.text \o "]"
      [] OTHER -> inputData.text

\* The fenced example of both prompt forms, under its heading
ExampleSection(heading, outputSchema) ==
    Cat(Cat(<<"", heading, Fence \o "json", "">>,
            Stringify2(generateSchemaExample(outputSchema))),
        <<"", Fence>>)

ResponseFormatSection ==
    <<"", "## Response Format",
      "Respond with valid JSON only. Do not include any text outside the JSON object.">>

\* The mutant of buildSystemPrompt: the example is left out of the legacy form.
buildSystemPrompt_terse(userDescription, outputSchema) ==
    JoinLines(
        <<<<"You are a helpful assistant that produces structured data output.">>>>
        \o (IF Truthy(userDescription)
            THEN <<Cat(<<"", "## Task Description", "">>, <<userDescription[1]>>)>>
            ELSE <<>>)
        \o (IF outputSchema # None
            THEN <<Cat(<<"", "## Output Structure",
                         "Your response must include the following fields:", "">>,
                       schemaToPromptInstructions(outputSchema[1], 0))>>
            ELSE <<>>)
        \o <<ResponseFormatSection>>)

\* buildSystemPrompt(userDescription, outputSchema)
buildSystemPrompt(userDescription, outputSchema) ==
    JoinLines(
        <<<<"You are a helpful assistant that produces structured data output.">>>>
        \o (IF Truthy(userDescription)
            THEN <<Cat(<<"", "## Task Description", "">>, <<userDescription[1]>>)>>
            ELSE <<>>)
        \o (IF outputSchema # None
            THEN <<Cat(<<"", "## Output Structure",
                         "Your response must include the following fields:", "">>,
                       schemaToPromptInstructions(outputSchema[1], 0))>>
                 \o (IF isComplexSchema(outputSchema[1])
                     THEN <<ExampleSection("## Example Output Structure",
                                           outputSchema[1])>>
                     ELSE <<>>)
            ELSE <<>>)
        \o <<ResponseFormatSection>>)

\* buildUserPrompt(inputData, isStructured)
buildUserPrompt(inputData, isStructured) ==
    IF isStructured /\ IsNonNullObject(inputData)
    THEN Cat(<<"Process the following data and generate the structured response:",
               "", "">>,
             formatStructuredInput(inputData.entries))
    ELSE Cat(<<"Process the following text and generate the structured response:",
               "", "">>,
             <<inputData.text>>)

\* PromptInput as routes/ai.ts builds it: it sets instructions, never description
PromptInput(inputData, outputSchema, instructions, context, provider) ==
    [inputData |-> inputData, outputSchema |-> outputSchema, description |-> None,
     instructions |-> instructions, context |-> context, provider |-> provider]

\* ApiHelper.buildLegacyPrompts
buildLegacyPrompts(input) ==
    [system |-> buildSystemPrompt(input.description, input.outputSchema),
     user |-> buildUserPrompt(input.inputData, TRUE)]

\* getProviderNotes
getProviderNotes(provider) ==
    CASE provider = "openai" ->
           "Note: This prompt is optimized for OpenAI models (GPT-4, GPT-4o, etc.)"
      [] provider = "anthropic" ->
           "Note: This prompt is optimized for Anthropic models (Claude)"
      [] provider = "gemini" ->
           "Note: This prompt is optimized for Google Gemini models"
      [] provider = "llm_server" ->
           "Note: This prompt is designed for custom LLM servers"
      [] OTHER -> ""

\* The mutant of ApiHelperPrompt: the context is written ahead of the task.
ApiHelperPrompt_contextFirst(input) ==
    JoinLines(
        (IF getProviderNotes(input.provider) # ""
         THEN <<<<"<!-- " \o getProviderNotes(input.provider) \o " -->", "">>>>
         ELSE <<>>)
        \o << <<"# Instructions", "">>,
              <<"You are a helpful assistant that produces structured data output.">> >>
        \o (IF Truthy(input.context)
            THEN <<Cat(<<"", "## Context", "">>, <<input.context[1]>>)>> ELSE <<>>)
        \o (IF Truthy(input.description)
            THEN <<Cat(<<"", "## Task", "">>, <<input.description[1]>>)>> ELSE <<>>)
        \o (IF input.outputSchema # None
            THEN <<Cat(<<"", "## Required Output Fields",
                         "Your response must include the following fields:", "">>,
                       schemaToPromptInstructions(input.outputSchema[1], 0))>>
                 \o (IF isComplexSchema(input.outputSchema[1])
                     THEN <<ExampleSection("## Example Output", input.outputSchema[1])>>
                     ELSE <<>>)
            ELSE <<>>)
        \o << ResponseFormatSection,
              <<"", "---", "">>,
              <<"# Input", "">>,
              <<"Process the following data:", "">>,
              IF IsNonNullObject(input.inputData)
              THEN formatStructuredInput(input.inputData.entries)
              ELSE <<JSONStringify(input.inputData)>> >>)

\* ApiHelper.prompt: the single combined prompt
ApiHelperPrompt(input) ==
    JoinLines(
        (IF getProviderNotes(input.provider) # ""
         THEN <<<<"<!-- " \o getProviderNotes(input.provider) \o " -->", "">>>>
         ELSE <<>>)
        \o << <<"# Instructions", "">>,
              <<"You are a helpful assistant that produces structured data output.">> >>
        \o (IF Truthy(input.description)
            THEN <<Cat(<<"", "## Task", "">>, <<input.description[1]>>)>> ELSE <<>>)
        \o (IF Truthy(input.context)
            THEN <<Cat(<<"", "## Context", "">>, <<input.context[1]>>)>> ELSE <<>>)
        \o (IF input.outputSchema # None
            THEN <<Cat(<<"", "## Required Output Fields",
                         "Your response must include the following fields:", "">>,
                       schemaToPromptInstructions(input.outputSchema[1], 0))>>
                 \o (IF isComplexSchema(input.outputSchema[1])
                     THEN <<ExampleSection("## Example Output", input.outputSchema[1])>>
                     ELSE <<>>)
            ELSE <<>>)
        \o << ResponseFormatSection,
              <<"", "---", "">>,
              <<"# Input", "">>,
              <<"Process the following data:", "">>,
              IF IsNonNullObject(input.inputData)
              THEN formatStructuredInput(input.inputData.entries)
              ELSE <<JSONStringify(input.inputData)>> >>)


(***************************************************************************)
(* The store: users, settings, and the rows the tests' helpers insert      *)
(***************************************************************************)
\* users.uuid, as its characters: the first group of eight, and the groups
\* after it shortened to one of two
UserA == <<"a", "1", "b", "2", "c", "3", "d", "4", "-", "e", "5">>
UserB == <<"d", "4", "e", "5", "f", "6", "a", "7", "-", "b", "8">>
Users == {UserA, UserB}

\* user_settings rows: user A chose an organization path
UserSettings == {[user_id |-> UserA, organization_path |-> <<"a", "c", "m", "e">>]}

\* REPLACE(uuid::text, '-', '')
RECURSIVE StripHyphens(_)
StripHyphens(chars) ==
    IF chars = <<>> THEN <<>>
    ELSE IF Head(chars) = "-" THEN StripHyphens(Tail(chars))
    ELSE <<Head(chars)>> \o StripHyphens(Tail(chars))

\* text LIKE prefix || '%': an underscore of the prefix stands for any one
\* character
StartsWith(text, prefix) ==
    /\ Len(prefix) <= Len(text)
    /\ \A i \in 1..Len(prefix) : prefix[i] \in {"_", text[i]}

\* findUserByOrgPath: the users one of which the lookup returns (the empty set
\* is null); a query without ORDER BY returns its rows in any order.
findUserByOrgPath(organizationPath) ==
    LET settingsRows == {s \in UserSettings : s.organization_path = organizationPath}
    IN IF settingsRows # {}
       THEN {u \in Users : \E s \in settingsRows : u = s.user_id}
       ELSE {u \in Users : StartsWith(StripHyphens(u), organizationPath)}

\* createTestLlmKey / keysRouter.post: the llm_api_keys rows
LlmKeyRow(id, user, provider, enc, iv, url, active) ==
    [uuid |-> id, user_id |-> user, provider |-> provider,
     encrypted_api_key |-> enc, encryption_iv |-> iv, endpoint_url |-> url,
     is_active |-> active]

\* createTestProject / projectsRouter.post
ProjectRow(id, user, name, active) ==
    [uuid |-> id, user_id |-> user, project_name |-> name, is_active |-> active]

\* The output schema the stored endpoints carry: one required string field
LabelSchema ==
    JObj(<<Member("type", JStr("object")),
           Member("properties",
               JObj(<<Member("label", JObj(<<Member("type", JStr("string"))>>))>>)),
           Member("required", JArr(<<JStr("label")>>))>>)

\* The row createTestEndpoint inserts, with an output schema and a
\* description.  No insert of the repository writes an endpoint type or
\* instructions: the row has neither property, and reading one gives undefined.
EndpointRow(id, project, name, method, key, active) ==
    [uuid |-> id, project_id |-> project, endpoint_name |-> name,
     http_method |-> method, endpoint_type |-> None, llm_key_id |-> key,
     output_schema |-> Some(LabelSchema),
     description |-> Some("Classify the message"),
     instructions |-> None,
     context |-> None, is_active |-> active]

GoodCipher == encryptApiKey(ENCRYPTION_KEY, "sk-live", IvOf(0, 0))

InitialLlmApiKeys ==
    {LlmKeyRow("K1", UserA, "openai", Some(GoodCipher.encrypted), Some(GoodCipher.iv),
               None, TRUE),
     LlmKeyRow("K2", UserA, "anthropic", None, None, None, TRUE),
     LlmKeyRow("K3", UserA, "gemini", Some("encrypted"), Some(GoodCipher.iv), None,
               TRUE),
     LlmKeyRow("K4", UserA, "llm_server", None, None,
               Some("http://localhost:8080/v1/chat"), TRUE),
     LlmKeyRow("K5", UserA, "openai", Some(GoodCipher.encrypted), Some(GoodCipher.iv),
               None, FALSE),
     LlmKeyRow("K6", UserB, "anthropic", Some(GoodCipher.encrypted), Some(GoodCipher.iv),
               None, TRUE),
     LlmKeyRow("K7", UserA, "anthropic", Some(GoodCipher.encrypted), Some(GoodCipher.iv),
               None, TRUE)}

InitialProjects ==
    {ProjectRow("P1", UserA, "shop", TRUE),
     ProjectRow("P2", UserB, "shop", TRUE)}

\* The rows of the table of src/src/db/schema.ts; the table of initDatabase
\* takes no row, each insert failing on endpoint_type NOT NULL.
InitialEndpoints ==
    {EndpointRow("E1", "P1", "classify", "POST", "K1", TRUE),
     EndpointRow("E2", "P1", "extract", "POST", "K7", TRUE),
     EndpointRow("E3", "P1", "payload", "POST", "K1", TRUE),
     EndpointRow("E4", "P1", "textpayload", "GET", "K4", TRUE),
     EndpointRow("E5", "P1", "summarize", "GET", "K4", TRUE),
     EndpointRow("E6", "P1", "broken", "POST", "K2", TRUE),
     EndpointRow("E7", "P1", "garbled", "POST", "K3", TRUE),
     EndpointRow("E8", "P1", "retired", "POST", "K5", TRUE),
     EndpointRow("E9", "P2", "classify", "POST", "K6", TRUE)}

\* The endpoint_type of the body each endpoint's owner sent to create it;
\* endpointCreateSchema declares no such key, so the validated body and the
\* stored row are without it.
DeclaredType(endpointId) ==
    CASE endpointId = "E2" -> "text_in_structured_out"
      [] endpointId = "E3" -> "structured_in_api_out"
      [] endpointId = "E4" -> "text_in_api_out"
      [] endpointId = "E5" -> "text_in_structured_out"
      [] OTHER -> "structured_in_structured_out"

(***************************************************************************)
(* Consumer requests                                                       *)
(***************************************************************************)
Routes == {"ai", "legacy", "prompt"}

\* A JSON object's entries: key, typeof value (an array's is "array"),
\* JSON.stringify(value), and the entries of a value that is an object
Entry(key, type, raw, json) ==
    [key |-> key, type |-> type, raw |-> raw, json |-> json, entries |-> <<>>]
ObjectEntry(key, entries, json) ==
    [key |-> key, type |-> "object", raw |-> "[object Object]", json |-> json,
     entries |-> entries]

\* What the request carries: a body (POST) or query parameters (GET).
PayloadInvalid == [valid |-> FALSE, entries |-> <<>>]
PayloadEmpty == [valid |-> TRUE, entries |-> <<>>]
PayloadText == [valid |-> TRUE, entries |-> <<Entry("text", "string", "hello", "\"hello\"")>>]
PayloadTextNumber == [valid |-> TRUE, entries |-> <<Entry("text", "number", "42", "42")>>]

\* The request carries a string-valued text field.
HasStringText(payload) ==
    /\ payload.valid
    /\ \E i \in 1..Len(payload.entries) :
          payload.entries[i].key = "text" /\ payload.entries[i].type = "string"

\* The parsed input: an object with its entries, or a string; text is
\* String(input)
ObjectInput(payload) ==
    [kind |-> "object", entries |-> payload.entries, text |-> "[object Object]"]
StringInput(text) == [kind |-> "string", entries |-> <<>>, text |-> text]

\* Input that is a number, null, or an array of numbers: text is String(input),
\* and entries are Object.entries(input), an array's under its indices
NumberInput(n) == [kind |-> "number", entries |-> <<>>, text |-> NumStr(n)]
NullInput == [kind |-> "null", entries |-> <<>>, text |-> "null"]
RECURSIVE JoinBare(_)
JoinBare(strings) ==
    IF strings = <<>> THEN ""
    ELSE IF Len(strings) = 1 THEN strings[1]
    ELSE strings[1] \o "," \o JoinBare(Tail(strings))
ArrayInput(numbers) ==
    [kind |-> "array",
     entries |-> [i \in 1..Len(numbers) |->
                     Entry(NumStr(i - 1), "number", NumStr(numbers[i]),
                           NumStr(numbers[i]))],
     text |-> JoinBare([i \in 1..Len(numbers) |-> NumStr(numbers[i])])]

\* An object one of whose values is an object
PayloadNested ==
    [valid |-> TRUE,
     entries |-> <<Entry("text", "string", "hello", "\"hello\""),
                   ObjectEntry("user", <<Entry("name", "string", "Ann", "\"Ann\""),
                                         Entry("age", "number", "7", "7")>>,
                               "{\"name\":\"Ann\",\"age\":7}"),
                   Entry("tags", "array", "1,2", "[1,2]")>>]

\* Query parameters are always well-formed strings; a body may be anything.
Payloads(method) ==
    IF method = "GET" THEN {PayloadEmpty, PayloadText}
    ELSE {PayloadInvalid, PayloadEmpty, PayloadText, PayloadTextNumber}

\* Organization paths: the one the first tenant chose, the first eight
\* characters of the second tenant's UUID, fewer and more of them, an
\* underscore, and a path of no tenant
OrgPaths ==
    {<<"a", "c", "m", "e">>, <<"d", "4", "e", "5", "f", "6", "a", "7">>,
     <<"d", "4", "e", "5">>, <<"d", "4", "e", "5", "f", "6", "a", "7", "b">>,
     <<"_">>, <<"z", "z">>}
ProjectNames == {"shop", "nope"}
EndpointNames == {e.endpoint_name : e \in InitialEndpoints} \cup {"nope"}

NoResponse ==
    [status |-> 0, success |-> FALSE, error |-> "", data |-> <<>>, debug |-> None]

IdleRequest ==
    [pc |-> "idle", route |-> "", org |-> <<>>, projectName |-> "",
     endpointName |-> "", method |-> "", payload |-> PayloadEmpty,
     project |-> None, endpoint |-> None, llmKey |-> None, adapter |-> None, llmRequest |-> None,
     llmResponse |-> None, calls |-> <<>>, pending |-> NoResponse,
     response |-> NoResponse]

errorResponse(status, msg) ==
    [status |-> status, success |-> FALSE, error |-> msg, data |-> <<>>,
     debug |-> None]

successResponse(data) ==
    [status |-> 200, success |-> TRUE, error |-> "", data |-> data, debug |-> None]


\* What the framework answers when a handler throws: no handler of this
\* repository catches it.
UncaughtResponse == errorResponse(500, "Internal Server Error")

\* What zValidator answers when a path, a query or a body does not parse
ValidationResponse == errorResponse(400, "ZodError")

\* The endpoints statements of the handlers name every column of
\* src/src/db/schema.ts, among them `context`; the table initDatabase creates
\* has no such column, so each statement on it is rejected by the database and
\* the handler throws.
EndpointsStatementThrows == endpointsTable = "initDatabase"

\* select from projects where user_id, project_name and is_active match
ActiveProjectRows(userId, projectName) ==
    {p \in projects : /\ p.user_id = userId
                      /\ p.project_name = projectName
                      /\ p.is_active}

\* The endpoint lookup without its is_active condition (a mutant).
AllEndpointRows(projectId, endpointName) ==
    {e \in endpoints : e.project_id = projectId /\ e.endpoint_name = endpointName}

\* select from endpoints where project_id, endpoint_name and is_active match
ActiveEndpointRows(projectId, endpointName) ==
    {e \in endpoints : /\ e.project_id = projectId
                       /\ e.endpoint_name = endpointName
                       /\ e.is_active}

\* select from llm_api_keys where uuid and is_active match
ActiveKeyRows(keyId) == {k \in llmApiKeys : k.uuid = keyId /\ k.is_active}

\* The mutant of MethodNotAllowed: a verb mismatch reported as a bad request.
MethodNotAllowed_as400(requestMethod, endpoint) ==
    [status |-> 400, success |-> FALSE,
     error |-> "Method " \o requestMethod \o " not allowed. Use " \o endpoint.http_method,
     data |-> <<>>, debug |-> None]

\* errorResponse(`Method ${requestMethod} not allowed. Use ${http_method}`), 405
MethodNotAllowed(requestMethod, endpoint) ==
    errorResponse(405, "Method " \o requestMethod \o " not allowed. Use "
                       \o endpoint.http_method)

\* The handler returns a response: the request q is answered, having made the
\* calls named since its last await.
Answered(q, response, calls) ==
    [q EXCEPT !.pc = "done", !.response = response, !.calls = @ \o calls]

\* validateAndGetContext, steps 1 and 2, up to the return of the select from
\* projects: the outcomes it can have, one per user the organization lookup
\* can return
validateAndGetContext_project(q) ==
    IF findUserByOrgPath(q.org) = {}
    THEN {Answered(q, errorResponse(404, "Organization not found"), <<>>)}
    ELSE {IF ActiveProjectRows(user, q.projectName) = {}
          THEN Answered(q, errorResponse(404, "Project not found"), <<>>)
          ELSE [q EXCEPT !.pc = "project",
                         !.project = Some(CHOOSE p \in ActiveProjectRows(
                                                           user, q.projectName) : TRUE)]
          : user \in findUserByOrgPath(q.org)}

\* validateAndGetContext, steps 4 and 5, on the endpoint row found: the verb,
\* then the input
ValidateEndpoint(q, endpoint) ==
    IF endpoint.http_method # q.method
    THEN [Answered(q, MethodNotAllowed(q.method, endpoint), <<>>)
             EXCEPT !.endpoint = Some(endpoint)]
    ELSE IF ~q.payload.valid
    THEN [Answered(q, errorResponse(400, "Invalid request body"), <<"parseInput">>)
             EXCEPT !.endpoint = Some(endpoint)]
    ELSE [q EXCEPT !.pc = "endpoint", !.endpoint = Some(endpoint),
                   !.calls = @ \o <<"parseInput">>]

\* validateAndGetContext, steps 3 to 5, from the return of the select from
\* endpoints, or its throw, to the select from llm_api_keys
validateAndGetContext_endpoint(q) ==
    IF EndpointsStatementThrows THEN Answered(q, UncaughtResponse, <<>>)
    ELSE IF ActiveEndpointRows(q.project[1].uuid, q.endpointName) = {}
    THEN Answered(q, errorResponse(404, "Endpoint not found"), <<>>)
    ELSE ValidateEndpoint(q, CHOOSE e \in ActiveEndpointRows(q.project[1].uuid,
                                                             q.endpointName) : TRUE)

\* validateAndGetContext, step 6, on the return of the select from
\* llm_api_keys: the request answered 500, or holding the key row
validateAndGetContext_key(q) ==
    IF ActiveKeyRows(q.endpoint[1].llm_key_id) = {}
    THEN Answered(q, errorResponse(500, "LLM API key not found or inactive"),
                  <<"keyLookup">>)
    ELSE [q EXCEPT !.llmKey = Some(CHOOSE k \in ActiveKeyRows(
                                                    q.endpoint[1].llm_key_id) : TRUE),
                   !.calls = @ \o <<"keyLookup">>]

\* The decryption step of handleAIRequest: only a key with both a ciphertext
\* and an IV is decrypted.
DecryptStep(llmKey) ==
    IF Truthy(llmKey.encrypted_api_key) /\ Truthy(llmKey.encryption_iv)
    THEN LET d == decryptApiKey(ENCRYPTION_KEY, llmKey.encrypted_api_key[1],
                                llmKey.encryption_iv[1])
         IN [called |-> TRUE, ok |-> d.ok,
             apiKey |-> IF d.ok THEN Some(d.value) ELSE None, error |-> d.error]
    ELSE [called |-> FALSE, ok |-> TRUE, apiKey |-> None, error |-> ""]

ProviderConfig(apiKey, endpointUrl) ==
    [apiKey |-> apiKey, endpointUrl |-> endpointUrl, model |-> None]

\* error instanceof Error ? error.message : "Unknown error"
errorMessageOf(isError, message) == IF isError THEN message ELSE "Unknown error"


(***************************************************************************)
(* The provider's replies and the analytics rows                           *)
(***************************************************************************)
Reply(kind, usage, ms) ==
    [kind |-> kind, content |-> IF kind = "ok" THEN "{\"label\":\"spam\"}" ELSE "",
     model |-> "gpt-4o-mini", usage |-> usage, ms |-> ms, body |-> None]

\* A 2xx reply given by its parsed body
BodyReply(body, usage) ==
    [kind |-> "body", content |-> "", model |-> "gpt-4o-mini", usage |-> usage,
     ms |-> 40, body |-> Some(body)]

ProviderReplies ==
    {Reply("ok", Some(RawUsage(Some(12), Some(7), Some(19), Some(12), Some(7))), 40),
     Reply("ok", Some(RawUsage(Some(30), Some(5), Some(35), Some(30), Some(5))), 55),
     Reply("ok", Some(RawUsage(None, Some(7), None, None, Some(7))), 40),
     Reply("ok", None, 40),
     Reply("no_structured", None, 40),
     Reply("bad_json", None, 40),
     Reply("transport", None, 5),
     Reply("http_error", None, 20)}

\* db.insert(usageAnalytics).values({...}) of the success path; exec names the
\* execution that wrote the row.
SuccessRow(endpoint, llmResponse, cost, exec) ==
    [endpoint_id |-> endpoint.uuid, success |-> TRUE, error_message |-> None,
     tokens_input |-> llmResponse.usage.promptTokens,
     tokens_output |-> llmResponse.usage.completionTokens,
     latency_ms |-> Some(llmResponse.latencyMs),
     estimated_cost_cents |-> cost,
     request_metadata |-> Some([model |-> llmResponse.model,
                                provider |-> llmResponse.provider]),
     exec |-> exec]

\* db.insert(usageAnalytics).values({...}) of the catch block
FailedRow(endpoint, errorMessage, latencyMs, exec) ==
    [endpoint_id |-> endpoint.uuid, success |-> FALSE,
     error_message |-> Some(errorMessage), tokens_input |-> None,
     tokens_output |-> None, latency_ms |-> Some(latencyMs),
     estimated_cost_cents |-> None, request_metadata |-> None, exec |-> exec]

\* An integer column takes no NaN: the insert of a row whose cost is NaN throws.
PgRejects(cost) == cost = None

PgError == "invalid input syntax for type integer: \"NaN\""

\* db.insert(usageAnalytics).values(...): one more row at the end of the table.
\* The mutant keeps one row per endpoint, replacing the endpoint's earlier row.
insertUsage_upsert(table, row) ==
    Append(SelectSeq(table, LAMBDA old : old.endpoint_id # row.endpoint_id), row)

insertUsage(table, row) == Append(table, row)

\* The mutant of logFailure: the catch block answers without logging.
logFailure_skipped(table, endpoint, errorMessage, latencyMs, exec) == table

\* The insert of the catch block
logFailure(table, endpoint, errorMessage, latencyMs, exec) ==
    insertUsage(table, FailedRow(endpoint, errorMessage, latencyMs, exec))

\* The rest of the try block after estimateCost returned, and the catch
\* block, up to the return of the insert: the table after the insert and what
\* the response will carry.
AfterEstimate(endpoint, exec, reply, llmResponse, costCents) ==
    LET succeeded == llmResponse.ok /\ ~PgRejects(costCents)
        errorMessage == IF llmResponse.ok THEN errorMessageOf(TRUE, PgError)
                        ELSE errorMessageOf(llmResponse.isError, llmResponse.error)
    IN [ok |-> succeeded, llmResponse |-> llmResponse,
        table |-> IF succeeded
                  THEN insertUsage(usageAnalytics,
                           SuccessRow(endpoint, llmResponse, costCents, exec))
                  ELSE logFailure(usageAnalytics, endpoint, errorMessage, reply.ms,
                                  exec),
        calls |-> IF llmResponse.ok /\ ~succeeded
                  THEN <<"estimateCost", "insertAnalytics", "insertAnalytics">>
                  ELSE IF succeeded THEN <<"estimateCost", "insertAnalytics">>
                  ELSE <<"insertAnalytics">>,
        errorMessage |-> errorMessage,
        data |-> [output |-> llmResponse.content,
                  usage |-> [tokens_input |-> llmResponse.usage.promptTokens,
                             tokens_output |-> llmResponse.usage.completionTokens,
                             latency_ms |-> llmResponse.latencyMs,
                             estimated_cost_cents |-> costCents]]]

\* The part of handleAIRequest after the provider settled with llmResponse
AfterResponse(endpoint, exec, reply, llmResponse) ==
    AfterEstimate(endpoint, exec, reply, llmResponse,
                  estimateCost(llmResponse.model, llmResponse.usage.promptTokens,
                               llmResponse.usage.completionTokens))

\* The part of handleAIRequest from provider.generate on
AfterGenerate(req, exec, reply) ==
    AfterResponse(req.endpoint[1], exec, reply,
                  generate(req.adapter[1], req.llmRequest[1], reply))

(***************************************************************************)
(* The execution orchestrator, routes/ai.ts                                *)
(***************************************************************************)
\* What a consumer can send: a route, an address, a verb and a payload.  The
\* route without an organization segment carries the empty path.
Request(route, org, pn, en, m, pl) ==
    [route |-> route, org |-> org, projectName |-> pn, endpointName |-> en,
     method |-> m, payload |-> pl]

OwnOrg(route) == IF route = "legacy" THEN <<>> ELSE <<"a", "c", "m", "e">>

\* The payloads sent to an endpoint name: with and without a `text` field, of
\* either type, where the name is one of an endpoint declared with a text kind.
TextNames ==
    {e.endpoint_name : e \in {x \in InitialEndpoints :
                                 IsTextKind(Some(DeclaredType(x.uuid)))}}

PayloadsFor(endpointName) ==
    IF endpointName \in TextNames
    THEN {PayloadInvalid, PayloadEmpty, PayloadText, PayloadTextNumber}
    ELSE {PayloadInvalid, PayloadEmpty}

\* Every endpoint name under the first tenant's own address, with every verb and
\* payload; and every address, right or wrong, of one endpoint name.
RequestInputs ==
    UNION {{Request(route, OwnOrg(route), "shop", en, m, pl) :
               route \in Routes, m \in HttpMethods, pl \in PayloadsFor(en)} :
           en \in EndpointNames}
    \cup
    {Request(route, org, pn, "classify", "POST", PayloadEmpty) :
        route \in Routes, org \in OrgPaths \cup {<<>>}, pn \in ProjectNames}

Admissible(in) ==
    /\ in.payload \in Payloads(in.method)
    /\ (in.route = "legacy") = (in.org = <<>>)

\* aiParamSchema of the path parameters: organizationPath, projectName and
\* endpointName are required, non-empty and of their patterns; the names and
\* organization paths sent here are, so the path parses where it has all three.
aiParamSchema(in) == in.org # <<>> /\ in.projectName # "" /\ in.endpointName # ""

Arrived(in) ==
    [IdleRequest EXCEPT !.route = in.route, !.org = in.org,
                        !.projectName = in.projectName,
                        !.endpointName = in.endpointName, !.method = in.method,
                        !.payload = in.payload]

\* { success: false, error, debug, timestamp } with status 500
FailureWithDebug(llmKey, llmRequest, errorMessage) ==
    [status |-> 500, success |-> FALSE,
     error |-> "LLM processing failed: " \o errorMessage, data |-> <<>>,
     debug |-> Some([provider |-> llmKey.provider,
                     endpointUrl |-> llmKey.endpoint_url,
                     request |-> llmRequest])]

\* A request to /ai/:organizationPath/:projectName/:endpointName or to its
\* /prompt arrives: validateAndGetContext up to the return of its select from
\* projects
validateAndGetContext_projects(r) ==
    /\ reqs[r].pc = "idle"
    /\ \E in \in RequestInputs :
         /\ Admissible(in) /\ in.route \in {"ai", "prompt"}
         /\ aiParamSchema(in)
         /\ \E out \in validateAndGetContext_project(Arrived(in)) :
              reqs' = [reqs EXCEPT ![r] = out]
    /\ UNCHANGED <<endpointsTable, projects, endpoints, llmApiKeys, usageAnalytics, factory, call, admin>>

\* validateAndGetContext from the return of its select from endpoints to its
\* select from llm_api_keys
validateAndGetContext_endpoints(r) ==
    /\ reqs[r].pc = "project"
    /\ reqs[r].route \in {"ai", "prompt"}
    /\ reqs' = [reqs EXCEPT ![r] = validateAndGetContext_endpoint(reqs[r])]
    /\ UNCHANGED <<endpointsTable, projects, endpoints, llmApiKeys, usageAnalytics, factory, call, admin>>

\* handleAIRequest from the return of validateAndGetContext to the call of
\* provider.generate; a throw of decryptApiKey or of the factory is caught by
\* nothing.
Execute(q) ==
    LET endpoint == q.endpoint[1]
        llmKey == q.llmKey[1]
        prompts == buildLegacyPrompts(
            PromptInput(ObjectInput(q.payload), endpoint.output_schema,
                        endpoint.instructions, endpoint.context, llmKey.provider))
        llmRequest == LLMRequest(prompts.user, prompts.system,
            Coalesce(endpoint.output_schema, Some(ObjectSchema))[1])
        dec == DecryptStep(llmKey)
        provider == createLLMProvider(llmKey.provider,
            ProviderConfig(dec.apiKey, llmKey.endpoint_url))
        calls == IF dec.called THEN <<"decryptApiKey">> ELSE <<>>
    IN IF ~dec.ok THEN Answered(q, UncaughtResponse, calls)
       ELSE IF ~provider.ok
       THEN Answered(q, UncaughtResponse, calls \o <<"createLLMProvider">>)
       ELSE [q EXCEPT !.pc = "generate",
                      !.adapter = Some(provider.adapter),
                      !.llmRequest = Some(llmRequest),
                      !.calls = @ \o calls \o <<"createLLMProvider", "generate">>]

\* handleAIRequest from the return of the select from llm_api_keys, the last
\* await of validateAndGetContext, to the call of provider.generate
handleAIRequest(r) ==
    /\ reqs[r].pc = "endpoint"
    /\ reqs[r].route = "ai"
    /\ reqs' = [reqs EXCEPT ![r] =
           IF validateAndGetContext_key(reqs[r]).pc = "done"
           THEN validateAndGetContext_key(reqs[r])
           ELSE Execute(validateAndGetContext_key(reqs[r]))]
    /\ UNCHANGED <<endpointsTable, projects, endpoints, llmApiKeys, usageAnalytics, factory, call, admin>>

\* What the handler answers when the analytics insert of a settled generate
\* has returned: the handler adds its debug info to a failure.
SettledResponse(q, after) ==
    IF after.ok THEN successResponse(after.data)
    ELSE FailureWithDebug(q.llmKey[1], q.llmRequest[1], after.errorMessage)

\* handleAIRequest from the moment provider.generate settles
\* to the return of the analytics insert
handleAIRequest_settle(r) ==
    /\ reqs[r].pc = "generate"
    /\ \E reply \in ProviderReplies :
         LET after == AfterGenerate(reqs[r], r, reply)
         IN /\ usageAnalytics' = after.table
            /\ reqs' = [reqs EXCEPT
                   ![r].pc = "respond",
                   ![r].llmResponse = Some(after.llmResponse),
                   ![r].calls = @ \o after.calls,
                   ![r].pending = SettledResponse(reqs[r], after)]
    /\ UNCHANGED <<endpointsTable, projects, endpoints, llmApiKeys, factory, call, admin>>

\* return c.json(...): the response leaves after the insert returned
handleAIRequest_respond(r) ==
    /\ reqs[r].pc = "respond"
    /\ reqs' = [reqs EXCEPT ![r].pc = "done", ![r].response = reqs[r].pending]
    /\ UNCHANGED <<endpointsTable, projects, endpoints, llmApiKeys, usageAnalytics, factory, call, admin>>

\* The mutant of PromptResponseData: the preview also names the provider.
PromptResponseData_verbose(prompt, llmKey) ==
    [prompt |-> prompt, provider |-> llmKey.provider]

\* successResponse({ prompt })
PromptResponseData(prompt, llmKey) == [prompt |-> prompt]

\* handlePromptRequest from the return of validateAndGetContext
Preview(q) ==
    Answered(q,
        successResponse(PromptResponseData(
            ApiHelperPrompt(
                PromptInput(ObjectInput(q.payload), q.endpoint[1].output_schema,
                            q.endpoint[1].instructions, q.endpoint[1].context,
                            q.llmKey[1].provider)),
            q.llmKey[1])),
        <<>>)

\* handlePromptRequest from the return of the select from llm_api_keys, the
\* last await of validateAndGetContext, to its response
handlePromptRequest(r) ==
    /\ reqs[r].pc = "endpoint"
    /\ reqs[r].route = "prompt"
    /\ reqs' = [reqs EXCEPT ![r] =
           IF validateAndGetContext_key(reqs[r]).pc = "done"
           THEN validateAndGetContext_key(reqs[r])
           ELSE Preview(validateAndGetContext_key(reqs[r]))]
    /\ UNCHANGED <<endpointsTable, projects, endpoints, llmApiKeys, usageAnalytics, factory, call, admin>>


(***************************************************************************)
(* The router of unnamed/part_002, mounted at /ai                          *)
(***************************************************************************)
\* aiRouter.get and aiRouter.post "/:projectName/:endpointName" with
\* zValidator("param", aiParamSchema): the path has no organizationPath, which
\* the schema requires, so the validator answers and handleAIRequest of this
\* router is not entered.
handleAIRequestLegacy(r) ==
    /\ reqs[r].pc = "idle"
    /\ \E in \in RequestInputs :
         /\ Admissible(in) /\ in.route = "legacy"
         /\ ~aiParamSchema(in)
         /\ reqs' = [reqs EXCEPT ![r] = Answered(Arrived(in), ValidationResponse, <<>>)]
    /\ UNCHANGED <<endpointsTable, projects, endpoints, llmApiKeys, usageAnalytics, factory, call, admin>>

(***************************************************************************)
(* The provider factory called on its own                                  *)
(***************************************************************************)
FactoryIds == LlmProviders \cup {"azure", "OpenAI", ""}
FactoryConfigs ==
    {[apiKey |-> k, endpointUrl |-> u, model |-> m] :
        k \in {None, Some(""), Some("sk-live")},
        u \in {None, Some(""), Some("http://localhost:8080/v1/chat")},
        m \in {None, Some("gpt-4o")}}

NoFactoryCall ==
    [called |-> FALSE, providerType |-> "", config |-> ProviderConfig(None, None),
     result |-> Thrown(""), used |-> "", generated |-> Raised("")]

\* A caller of createLLMProvider(providerType, config)
CreateProvider ==
    /\ ~factory.called
    /\ \E providerType \in FactoryIds, config \in FactoryConfigs :
         factory' = [NoFactoryCall EXCEPT
                        !.called = TRUE, !.providerType = providerType,
                        !.config = config,
                        !.result = createLLMProvider(providerType, config)]
    /\ UNCHANGED <<endpointsTable, projects, endpoints, llmApiKeys, usageAnalytics, reqs, call, admin>>

\* The caller uses the adapter it was given: buildApiPayload, or generate
UseProvider ==
    /\ factory.called /\ factory.result.ok /\ factory.used = ""
    /\ \/ factory' = [factory EXCEPT !.used = "buildApiPayload"]
       \/ \E reply \in ProviderReplies :
            factory' = [factory EXCEPT
                           !.used = "generate",
                           !.generated = generate(factory.result.adapter,
                                                  LLMRequest(<<"p">>, <<"s">>, ObjectSchema),
                                                  reply)]
    /\ UNCHANGED <<endpointsTable, projects, endpoints, llmApiKeys, usageAnalytics, reqs, call, admin>>

(***************************************************************************)
(* The library functions called on their own: schemas, requests, replies   *)
(***************************************************************************)
\* A schema node of a type, and its variants
Typed(type) == JObj(<<Member("type", JStr(type))>>)
With(schema, key, value) == JObj(schema.v \o <<Member(key, value)>>)
ArrayOf(items) == With(Typed("array"), "items", items)
Properties(members) == Member("properties", JObj(members))
Required(names) == Member("required", JArr([i \in 1..Len(names) |-> JStr(names[i])]))

\* {type:"object", properties:{name:{type:"string"}}, required:["name"]}
NameSchema ==
    JObj(<<Member("type", JStr("object")),
           Properties(<<Member("name", Typed("string"))>>),
           Required(<<"name">>)>>)

PrimitiveTypes == {"string", "number", "integer", "boolean"}

\* Property schemas without enum or default: primitives, with and without a
\* description or constraints, a node without a type, and the null type
PlainScalars ==
    {Typed(t) : t \in PrimitiveTypes}
    \cup {JObj(<<>>), Typed("null"),
          With(Typed("string"), "description", JStr("The label")),
          With(With(Typed("integer"), "minimum", JNum(0)), "maximum", JNum(10)),
          With(With(Typed("string"), "minLength", JNum(1)), "format", JStr("email"))}

\* Property schemas with an enum or a default
ChoiceScalars ==
    {With(Typed("string"), "enum", JArr(<<JStr("low"), JStr("high")>>)),
     With(Typed("string"), "enum", JArr(<<>>)),
     With(Typed("number"), "default", JNum(7)),
     With(Typed("object"), "default", JNull)}

\* Nested property schemas: arrays with and without items, objects with, with
\* empty and without properties
PlainContainers ==
    {ArrayOf(Typed("string")), Typed("array"), Typed("object"),
     ArrayOf(JObj(<<Member("type", JStr("object")),
                    Properties(<<Member("id", Typed("integer"))>>),
                    Required(<<"id">>)>>)),
     JObj(<<Member("type", JStr("object")), Properties(<<>>)>>),
     JObj(<<Member("type", JStr("object")),
            Properties(<<Member("city", Typed("string")),
                         Member("name", Typed("boolean"))>>),
            Required(<<"city">>)>>),
     JObj(<<Properties(<<Member("zip", Typed("string"))>>)>>)}

PlainPropSchemas == PlainScalars \cup PlainContainers
PropSchemas == PlainPropSchemas \cup ChoiceScalars

\* The property lists of the generated object schemas: none, one, two, and
\* four and five flat ones
MaxProperties == 5
FlatProperties(n) ==
    [i \in 1..n |->
        Member(<<"name", "age", "city", "zip", "id", "tag", "note", "rank">>[i],
               Typed(<<"string", "integer", "string", "string", "number", "string",
                       "string", "integer">>[i]))]
PropertyLists(props) ==
    {<<>>}
    \cup {<<Member("name", p)>> : p \in props}
    \cup {<<Member("name", p), Member("age", q)>> :
             p \in props, q \in {Typed("integer"), ArrayOf(Typed("string"))}}
    \cup {FlatProperties(n) : n \in 3..MaxProperties}

\* The required lists: absent, empty, some of the properties, and a name that
\* is no property
RequiredLists == {None, Some(<<>>), Some(<<"name">>), Some(<<"age", "name">>),
                  Some(<<"title">>)}

\* Object schemas over the given property schemas, with and without "type"
ObjectSchemasOver(props) ==
    {JObj(head \o <<Properties(members)>>
          \o (IF required = None THEN <<>> ELSE <<Required(required[1])>>)) :
        head \in {<<>>, <<Member("type", JStr("object"))>>},
        members \in PropertyLists(props),
        required \in RequiredLists}

ObjectSchemas == ObjectSchemasOver(PropSchemas)

\* Tree-shaped schemas without enum or default at any level
PlainSchemas == ObjectSchemasOver(PlainPropSchemas) \cup PlainPropSchemas

\* Schemas that carry the keywords of the JSON Schema vocabulary an adapter
\* may have to drop, at the top and inside a property
MetaSchemas ==
    {JObj(<<Member("$schema", JStr("http://json-schema.org/draft-07/schema#")),
            Member("$id", JStr("urn:label"))>> \o NameSchema.v),
     JObj(NameSchema.v
          \o <<Member("definitions", JObj(<<Member("tag", Typed("string"))>>)),
               Member("$defs", JObj(<<Member("tag", Typed("string"))>>))>>),
     JObj(<<Member("type", JStr("object")),
            Properties(<<Member("name",
                With(Typed("string"), "$id", JStr("urn:name")))>>)>>),
     JObj(<<Member("type", JStr("object")),
            Properties(<<Member("$id", Typed("string"))>>)>>)}

\* The output schemas of the requests handed to the adapters
RequestSchemas ==
    {NameSchema, LabelSchema, ObjectSchema}
    \cup MetaSchemas
    \cup {s \in ObjectSchemas : Len(Get(s, "properties")[1].v) \in {1, 4}
                                /\ Get(s, "required") = Some(JArr(<<JStr("name")>>))}

\* Canonical requests: every optional field present and absent
CanonicalRequests ==
    {CanonicalRequest(<<"Process the following data:", "", "- a: 1">>, systemPrompt,
                      outputSchema, model, temperature, maxTokens) :
        systemPrompt \in {None, Some(EmptyText), Some(<<"You are helpful.">>)},
        outputSchema \in RequestSchemas,
        model \in {None, Some("gpt-4o")},
        temperature \in {None, Some(1)},
        maxTokens \in {None, Some(100)}}

\* One adapter of each class, as its constructor leaves it
AdapterOf(provider) ==
    createLLMProvider(provider,
        [apiKey |-> Some("sk-live"), model |-> None,
         endpointUrl |-> Some("http://localhost:8080/v1/chat")]).adapter

\* A library function was called with these arguments and returned this.
Called(fn, args, result) == [fn |-> fn, args |-> args, result |-> result]

\* provider.buildApiPayload(request) on an adapter of each class
BuildApiPayloadCall ==
    /\ call = NoCall
    /\ \E provider \in LlmProviders, request \in CanonicalRequests :
          call' = Called("buildApiPayload",
                         [adapter |-> AdapterOf(provider), request |-> request],
                         buildApiPayload(AdapterOf(provider), request))
    /\ UNCHANGED <<endpointsTable, projects, endpoints, llmApiKeys, usageAnalytics, reqs, factory, admin>>


\* Content blocks of an Anthropic message
TextBlock == JObj(<<Member("type", JStr("text")), Member("text", JStr("Here you go"))>>)
ToolUseBlock(name, input) ==
    JObj(<<Member("type", JStr("tool_use")), Member("id", JStr("toolu_01")),
           Member("name", JStr(name)), Member("input", input)>>)
SpamInput == JObj(<<Member("label", JStr("spam"))>>)
HamInput == JObj(<<Member("label", JStr("ham"))>>)

MaxBlocks == 3
AnthropicBlocks ==
    {TextBlock, ToolUseBlock("structured_response", SpamInput),
     ToolUseBlock("structured_response", HamInput), ToolUseBlock("lookup", HamInput)}

\* Anthropic messages of up to MaxBlocks content blocks
AnthropicBodies ==
    {JObj(<<Member("role", JStr("assistant")), Member("content", JArr(blocks))>>) :
        blocks \in UNION {[1..n -> AnthropicBlocks] : n \in 0..MaxBlocks}}

\* AnthropicProvider.generate on a message of the provider
AnthropicGenerateCall ==
    /\ call = NoCall
    /\ \E body \in AnthropicBodies, request \in {LLMRequest(<<"p">>, <<"s">>, NameSchema)} :
          LET reply == BodyReply(body, Some(RawUsage(None, None, None, Some(12), Some(7))))
          IN call' = Called("AnthropicProvider.generate",
                            [adapter |-> AdapterOf("anthropic"), request |-> request,
                             reply |-> reply],
                            AnthropicGenerate(AdapterOf("anthropic"), request, reply))
    /\ UNCHANGED <<endpointsTable, projects, endpoints, llmApiKeys, usageAnalytics, reqs, factory, admin>>


\* The parts a custom server's 2xx body is put together from
ToolCallOf(text) ==
    JObj(<<Member("function", JObj(<<Member("name", JStr("structured_response")),
                                     Member("arguments", JStr(text))>>))>>)
\* A tool call whose arguments are no string
ArgumentsCall(arguments) ==
    JObj(<<Member("function", JObj(<<Member("arguments", arguments)>>))>>)
MessageChoice(members) == JObj(<<Member("message", JObj(members))>>)

ChoicesParts ==
    {None, Some(JStr("none")), Some(JArr(<<>>)),
     Some(JArr(<<JObj(<<Member("finish_reason", JStr("stop"))>>)>>)),
     Some(JArr(<<MessageChoice(<<Member("tool_calls",
                                      JArr(<<ToolCallOf(AnswerText(1))>>))>>)>>)),
     Some(JArr(<<MessageChoice(<<Member("tool_calls", JArr(<<JObj(<<>>)>>))>>)>>)),
     Some(JArr(<<MessageChoice(<<Member("tool_calls", JArr(<<>>))>>)>>)),
     Some(JArr(<<MessageChoice(<<Member("tool_calls",
                                      JArr(<<ArgumentsCall(JNull)>>))>>)>>)),
     Some(JArr(<<MessageChoice(<<Member("tool_calls",
                                      JArr(<<ArgumentsCall(JNum(7))>>))>>)>>)),
     Some(JArr(<<MessageChoice(<<Member("tool_calls",
                                      JArr(<<JObj(<<Member("function",
                                                           JObj(<<>>))>>)>>))>>)>>)),
     Some(JArr(<<MessageChoice(<<Member("content", JStr(ProseText(2)))>>)>>)),
     Some(JArr(<<MessageChoice(<<Member("content", JStr("I cannot help"))>>)>>)),
     Some(JArr(<<JObj(<<Member("text", JStr(AnswerText(3)))>>)>>)),
     Some(JArr(<<JObj(<<Member("text", JStr(AnswerText(3))),
                        Member("message",
                            JObj(<<Member("content", JStr(AnswerText(2))),
                                   Member("tool_calls",
                                       JArr(<<ToolCallOf(AnswerText(1))>>))>>))>>)>>)),
     Some(JArr(<<JObj(<<Member("text", JStr(AnswerText(3))),
                        Member("message",
                            JObj(<<Member("content", JStr(AnswerText(2)))>>))>>)>>))}

ContentParts ==
    {None, Some(JArr(<<>>)),
     Some(JArr(<<ToolUseBlock("structured_response", Answer(4))>>)),
     Some(JArr(<<JObj(<<Member("type", JStr("text")),
                        Member("text", JStr(AnswerText(5)))>>)>>)),
     Some(JArr(<<JObj(<<Member("type", JStr("image"))>>)>>))}

GenericParts ==
    {<<>>} \cup
    {SelectSeq(<<Member("output", JStr(AnswerText(8))),
                 Member("text", JStr(FencedText(7))),
                 Member("response", JStr(AnswerText(6)))>>,
               LAMBDA m : m.k \in keys) :
        keys \in SUBSET {"response", "text", "output"}}

\* The bodies: any of the parts together, and a body of none of them
CustomBodies ==
    {JObj(OptMember("choices", choices) \o OptMember("content", content) \o generic
          \o (IF choices = None /\ content = None /\ generic = <<>>
              THEN <<Member("x", JNum(9))>> ELSE <<>>)) :
        choices \in ChoicesParts, content \in ContentParts, generic \in GenericParts}

\* CustomLLMProvider.generate on a 2xx body of the server
CustomGenerateCall ==
    /\ call = NoCall
    /\ \E body \in CustomBodies, request \in {LLMRequest(<<"p">>, <<"s">>, NameSchema)} :
          LET reply == BodyReply(body, None)
          IN call' = Called("CustomLLMProvider.generate",
                            [adapter |-> AdapterOf("llm_server"), request |-> request,
                             reply |-> reply],
                            CustomGenerate(AdapterOf("llm_server"), request, reply))
    /\ UNCHANGED <<endpointsTable, projects, endpoints, llmApiKeys, usageAnalytics, reqs, factory, admin>>


\* The model strings the estimator is called with: the keys of the table,
\* strings that are no key of it, and names of Object.prototype
EstimatedModels ==
    CostModels \cup {"unknown-model-xyz", "GPT-4o", "constructor", "toString",
                     "isPrototypeOf"}

\* estimateCost(model, inputTokens, outputTokens)
EstimateCostCall ==
    /\ call = NoCall
    /\ \E model \in EstimatedModels, inputTokens \in TokenCounts, outputTokens \in TokenCounts :
          call' = Called("estimateCost",
                         [model |-> model, inputTokens |-> inputTokens,
                          outputTokens |-> outputTokens],
                         estimateCost(model, Some(inputTokens), Some(outputTokens)))
    /\ UNCHANGED <<endpointsTable, projects, endpoints, llmApiKeys, usageAnalytics, reqs, factory, admin>>


\* Schemas that declare properties under a type other than object
TypedWithProperties ==
    {JObj(<<Member("type", JStr(t)),
            Properties(<<Member("name", Typed("string")), Member("age", Typed("integer"))>>),
            Required(<<"name">>)>>) : t \in {"array", "string"}}

\* The schemas the prompt functions are called with
PromptSchemas == ObjectSchemas \cup PlainPropSchemas \cup TypedWithProperties

\* schemaToPromptInstructions(schema, depth); depth is 0 unless given
SchemaToPromptInstructionsCall ==
    /\ call = NoCall
    /\ \E schema \in PromptSchemas, depth \in {0, 2} :
          call' = Called("schemaToPromptInstructions",
                         [schema |-> schema, depth |-> depth],
                         schemaToPromptInstructions(schema, depth))
    /\ UNCHANGED <<endpointsTable, projects, endpoints, llmApiKeys, usageAnalytics, reqs, factory, admin>>


\* generateSchemaExample(schema)
GenerateSchemaExampleCall ==
    /\ call = NoCall
    /\ \E schema \in PromptSchemas :
          call' = Called("generateSchemaExample", [schema |-> schema],
                         generateSchemaExample(schema))
    /\ UNCHANGED <<endpointsTable, projects, endpoints, llmApiKeys, usageAnalytics, reqs, factory, admin>>


\* The PromptInputs the prompt forms are called with: description and
\* context absent, empty and given; no schema, and schemas that are and are
\* not complex; the four providers and a name that is none of them; an
\* object and a string as input data
PromptOutputSchemas ==
    {ObjectSchema, LabelSchema}
    \cup {s \in ObjectSchemas : /\ Get(s, "type") = Some(JStr("object"))
                                /\ Get(s, "required") = Some(JArr(<<JStr("name")>>))}

PromptInputs ==
    {[inputData |-> inputData, outputSchema |-> outputSchema,
      description |-> description, instructions |-> None, context |-> context,
      provider |-> provider] :
        inputData \in {ObjectInput(PayloadText), StringInput("hello"),
                       ObjectInput(PayloadNested), ArrayInput(<<4, 2>>),
                       NumberInput(7), NullInput},
        outputSchema \in {None} \cup {Some(s) : s \in PromptOutputSchemas},
        description \in {None, Some(""), Some("Classify the text.")},
        context \in {None, Some(""), Some("The shop sells shoes.")},
        provider \in LlmProviders \cup {"mistral"}}

\* ApiHelper.prompt(input)
ApiHelperPromptCall ==
    /\ call = NoCall
    /\ \E input \in PromptInputs :
          call' = Called("ApiHelper.prompt", [input |-> input], ApiHelperPrompt(input))
    /\ UNCHANGED <<endpointsTable, projects, endpoints, llmApiKeys, usageAnalytics, reqs, factory, admin>>

\* ApiHelper.buildLegacyPrompts(input)
BuildLegacyPromptsCall ==
    /\ call = NoCall
    /\ \E input \in PromptInputs :
          call' = Called("ApiHelper.buildLegacyPrompts", [input |-> input],
                         buildLegacyPrompts(input))
    /\ UNCHANGED <<endpointsTable, projects, endpoints, llmApiKeys, usageAnalytics, reqs, factory, admin>>


(***************************************************************************)
(* The owner's routes: keys, projects, endpoints, analytics                *)
(***************************************************************************)
\* The fields a request body of the owner's routes can carry
NoBody ==
    [project_name |-> None, endpoint_name |-> None, endpoint_type |-> None,
     llm_key_id |-> None, is_active |-> None, provider |-> None, api_key |-> None,
     endpoint_url |-> None]

\* A request to an owner's route: its position (the statement it awaits), what
\* it carries, the row it read before writing, the IV drawn for a new
\* credential, the rows and the aggregate an analytics request holds, the
\* tables it touched in order, the rows it answered from, and its response.
IdleAdmin ==
    [pc |-> "idle", route |-> "", caller |-> <<>>, userId |-> <<>>,
     projectId |-> "", endpointId |-> "", keyId |-> "", body |-> NoBody,
     current |-> None, iv |-> None, selected |-> {}, aggregate |-> None,
     touched |-> <<>>, rows |-> {}, response |-> NoResponse]

AdminArrived(route, caller, userId, projectId, endpointId, keyId, body) ==
    [IdleAdmin EXCEPT !.route = route, !.caller = caller, !.userId = userId,
                      !.projectId = projectId, !.endpointId = endpointId,
                      !.keyId = keyId, !.body = body]

AdminAnswered(in, response, touched, rows) ==
    [in EXCEPT !.pc = "done", !.response = response, !.touched = touched,
               !.rows = rows]

\* The handler awaits its next statement, named by pc, holding the row it read.
AdminAwaits(in, pc, current, touched) ==
    [in EXCEPT !.pc = pc, !.current = current, !.touched = touched]

\* rows[0] of a select that returned a row
FirstRow(rows) == CHOOSE row \in rows : TRUE

\* successResponse(row), 201
createdResponse(data) == [successResponse(data) EXCEPT !.status = 201]

\* The mutant of SubjectDiffers: the handlers serve any authenticated subject.
SubjectDiffers_never(uid, userId) == FALSE

\* firebaseUser.uid !== userId
SubjectDiffers(uid, userId) == uid # userId

\* z.string().uuid()
IsUuid(id) == id # "not-a-uuid"

\* projectNameRegex / endpointNameRegex with min(1): lowercase alphanumerics
\* and inner hyphens
NameMatches(name) == name \notin {"", "Bad Name"}

\* gen_random_uuid() of the insert made by request a
NewKeyIds == <<"K8", "K9", "K10", "K11">>
NewProjectIds == <<"P3", "P4", "P5", "P6">>
NewEndpointIds == <<"E10", "E11", "E12", "E13">>

\* The ids and names the requests carry
KeyPathIds == {"K1", "K2", "K8", "not-a-uuid"}
ProjectPathIds == {"P1", "P3", "not-a-uuid"}
EndpointPathIds == {"E1", "E10"}
NewProjectNames == {"shop", "blog", "Bad Name"}
NewEndpointNames == {"classify", "fresh"}
BodyKeyIds == {"K1", "K6", "K0"}

\* The mutant of toSafeKey: the row as stored.
toSafeKey_raw(key) ==
    [uuid |-> key.uuid, user_id |-> key.user_id, provider |-> key.provider,
     has_api_key |-> Truthy(key.encrypted_api_key),
     encrypted_api_key |-> key.encrypted_api_key,
     endpoint_url |-> key.endpoint_url, is_active |-> key.is_active]

\* toSafeKey
toSafeKey(key) ==
    [uuid |-> key.uuid, user_id |-> key.user_id, provider |-> key.provider,
     has_api_key |-> Truthy(key.encrypted_api_key),
     endpoint_url |-> key.endpoint_url, is_active |-> key.is_active]

\* keyCreateSchema: api_key for the hosted providers, endpoint_url for llm_server
KeyCreateBodies ==
    {[NoBody EXCEPT !.provider = Some("openai"), !.api_key = Some("sk-live")],
     [NoBody EXCEPT !.provider = Some("openai")],
     [NoBody EXCEPT !.provider = Some("llm_server"),
                    !.endpoint_url = Some("http://localhost:8080/v1/chat")],
     [NoBody EXCEPT !.provider = Some("llm_server")]}

keyCreateSchema(body) ==
    IF body.provider[1] # "llm_server" THEN Truthy(body.api_key)
    ELSE Truthy(body.endpoint_url)

KeyUpdateBodies ==
    {NoBody, [NoBody EXCEPT !.api_key = Some("sk-live")],
     [NoBody EXCEPT !.is_active = Some(FALSE)]}

\* keysRouter.get "/"
keysRouter_list(a) ==
    /\ admin[a].pc = "idle"
    /\ \E caller \in Users, userId \in Users :
         admin' = [admin EXCEPT ![a] =
            IF SubjectDiffers(caller, userId)
            THEN AdminAnswered(AdminArrived("keys.list", caller, userId, "", "", "",
                                            NoBody),
                     errorResponse(403, "You can only access your own keys"), <<>>, {})
            ELSE AdminAnswered(AdminArrived("keys.list", caller, userId, "", "", "",
                                            NoBody),
                     successResponse({toSafeKey(k) :
                                        k \in {x \in llmApiKeys : x.user_id = caller}}),
                     <<"select users", "select llm_api_keys">>,
                     {x \in llmApiKeys : x.user_id = caller})]
    /\ UNCHANGED <<endpointsTable, projects, endpoints, llmApiKeys, usageAnalytics, reqs, factory, call>>

\* keysRouter.get "/:keyId"
keysRouter_get(a) ==
    /\ admin[a].pc = "idle"
    /\ \E caller \in Users, userId \in Users, keyId \in KeyPathIds :
         LET in == AdminArrived("keys.get", caller, userId, "", "", keyId, NoBody)
             rows == {k \in llmApiKeys : k.user_id = caller /\ k.uuid = keyId}
         IN admin' = [admin EXCEPT ![a] =
              IF ~IsUuid(keyId) THEN AdminAnswered(in, ValidationResponse, <<>>, {})
              ELSE IF SubjectDiffers(caller, userId)
              THEN AdminAnswered(in,
                       errorResponse(403, "You can only access your own keys"), <<>>, {})
              ELSE IF rows = {}
              THEN AdminAnswered(in, errorResponse(404, "Key not found"),
                                 <<"select users", "select llm_api_keys">>, {})
              ELSE AdminAnswered(in, successResponse({toSafeKey(k) : k \in rows}),
                                 <<"select users", "select llm_api_keys">>, rows)]
    /\ UNCHANGED <<endpointsTable, projects, endpoints, llmApiKeys, usageAnalytics, reqs, factory, call>>

\* The row keysRouter.post inserts
\* if (body.api_key) encryptApiKey(body.api_key) of both handlers throws
EncryptThrows(body, iv) ==
    Truthy(body.api_key) /\ ~encryptApiKey(ENCRYPTION_KEY, body.api_key[1], iv).ok

NewKeyRow(a, caller, body, iv) ==
    LlmKeyRow(NewKeyIds[a], caller, body.provider[1],
              IF Truthy(body.api_key)
              THEN Some(encryptApiKey(ENCRYPTION_KEY, body.api_key[1], iv).encrypted)
              ELSE None,
              IF Truthy(body.api_key)
              THEN Some(encryptApiKey(ENCRYPTION_KEY, body.api_key[1], iv).iv)
              ELSE None,
              body.endpoint_url, TRUE)

\* keysRouter.post
keysRouter_post(a) ==
    /\ admin[a].pc = "idle"
    /\ \E caller \in Users, userId \in Users, body \in KeyCreateBodies,
          iv \in RandomIvs :
         LET in == AdminArrived("keys.post", caller, userId, "", "", "", body)
         IN IF ~keyCreateSchema(body)
            THEN /\ admin' = [admin EXCEPT ![a] =
                        AdminAnswered(in, ValidationResponse, <<>>, {})]
                 /\ llmApiKeys' = llmApiKeys
            ELSE IF SubjectDiffers(caller, userId)
            THEN /\ admin' = [admin EXCEPT ![a] =
                        AdminAnswered(in,
                            errorResponse(403, "You can only create your own keys"),
                            <<>>, {})]
                 /\ llmApiKeys' = llmApiKeys
            ELSE IF EncryptThrows(body, iv)
            THEN /\ admin' = [admin EXCEPT ![a] =
                        AdminAnswered(in, UncaughtResponse, <<"select users">>, {})]
                 /\ llmApiKeys' = llmApiKeys
            ELSE /\ admin' = [admin EXCEPT ![a] =
                        AdminAnswered(in,
                            createdResponse({toSafeKey(NewKeyRow(a, caller, body, iv))}),
                            <<"select users", "insert llm_api_keys">>,
                            {NewKeyRow(a, caller, body, iv)})]
                 /\ llmApiKeys' = llmApiKeys \cup {NewKeyRow(a, caller, body, iv)}
    /\ UNCHANGED <<endpointsTable, projects, endpoints, usageAnalytics, reqs, factory, call>>

\* The row keysRouter.put sets where uuid = keyId: the credential it encrypted,
\* and each other column from the body, or from the row the handler read
UpdatedKeyRow(stored, current, body, iv) ==
    [stored EXCEPT
        !.encrypted_api_key =
            IF Truthy(body.api_key)
            THEN Some(encryptApiKey(ENCRYPTION_KEY, body.api_key[1], iv).encrypted)
            ELSE current.encrypted_api_key,
        !.encryption_iv =
            IF Truthy(body.api_key)
            THEN Some(encryptApiKey(ENCRYPTION_KEY, body.api_key[1], iv).iv)
            ELSE current.encryption_iv,
        !.endpoint_url = Coalesce(body.endpoint_url, current.endpoint_url),
        !.is_active = Coalesce(body.is_active, Some(current.is_active))[1]]

\* keysRouter.put up to its update: the select of the key, and the encryption
\* of a new credential
keysRouter_put(a) ==
    /\ admin[a].pc = "idle"
    /\ \E caller \in Users, userId \in Users, keyId \in KeyPathIds,
          body \in KeyUpdateBodies, iv \in RandomIvs :
         LET in == AdminArrived("keys.put", caller, userId, "", "", keyId, body)
             existing == {k \in llmApiKeys : k.user_id = caller /\ k.uuid = keyId}
         IN admin' = [admin EXCEPT ![a] =
              IF ~IsUuid(keyId) THEN AdminAnswered(in, ValidationResponse, <<>>, {})
              ELSE IF SubjectDiffers(caller, userId)
              THEN AdminAnswered(in,
                       errorResponse(403, "You can only update your own keys"), <<>>, {})
              ELSE IF existing = {}
              THEN AdminAnswered(in, errorResponse(404, "Key not found"),
                                 <<"select users", "select llm_api_keys">>, {})
              ELSE IF EncryptThrows(body, iv)
              THEN AdminAnswered(in, UncaughtResponse,
                                 <<"select users", "select llm_api_keys">>, {})
              ELSE [AdminAwaits(in, "write", Some(FirstRow(existing)),
                                <<"select users", "select llm_api_keys">>)
                       EXCEPT !.iv = Some(iv)]]
    /\ UNCHANGED <<endpointsTable, projects, endpoints, llmApiKeys, usageAnalytics, reqs, factory, call>>

\* The update of keysRouter.put, where uuid = keyId; toSafeKey(rows[0]) throws
\* when the update returned no row.
keysRouter_put_update(a) ==
    /\ admin[a].pc = "write"
    /\ admin[a].route = "keys.put"
    /\ LET stored == {k \in llmApiKeys : k.uuid = admin[a].keyId}
           written == {UpdatedKeyRow(k, admin[a].current[1], admin[a].body,
                                     admin[a].iv[1]) : k \in stored}
       IN /\ admin' = [admin EXCEPT ![a] =
                 IF written = {}
                 THEN AdminAnswered(admin[a], UncaughtResponse,
                                    admin[a].touched \o <<"update llm_api_keys">>, {})
                 ELSE AdminAnswered(admin[a],
                                    successResponse({toSafeKey(k) : k \in written}),
                                    admin[a].touched \o <<"update llm_api_keys">>,
                                    written)]
          /\ llmApiKeys' = (llmApiKeys \ stored) \cup written
    /\ UNCHANGED <<endpointsTable, projects, endpoints, usageAnalytics, reqs, factory, call>>

\* keysRouter.delete; endpoints.llm_key_id is ON DELETE RESTRICT, so the delete
\* of a key an endpoint uses throws.
keysRouter_delete(a) ==
    /\ admin[a].pc = "idle"
    /\ \E caller \in Users, userId \in Users, keyId \in KeyPathIds :
         LET in == AdminArrived("keys.delete", caller, userId, "", "", keyId, NoBody)
             rows == {k \in llmApiKeys : k.user_id = caller /\ k.uuid = keyId}
         IN IF ~IsUuid(keyId)
            THEN /\ admin' = [admin EXCEPT ![a] =
                        AdminAnswered(in, ValidationResponse, <<>>, {})]
                 /\ llmApiKeys' = llmApiKeys
            ELSE IF SubjectDiffers(caller, userId)
            THEN /\ admin' = [admin EXCEPT ![a] =
                        AdminAnswered(in,
                            errorResponse(403, "You can only delete your own keys"),
                            <<>>, {})]
                 /\ llmApiKeys' = llmApiKeys
            ELSE IF rows # {} /\ \E e \in endpoints : e.llm_key_id = keyId
            THEN /\ admin' = [admin EXCEPT ![a] =
                        AdminAnswered(in, UncaughtResponse,
                            <<"select users", "delete llm_api_keys">>, {})]
                 /\ llmApiKeys' = llmApiKeys
            ELSE IF rows = {}
            THEN /\ admin' = [admin EXCEPT ![a] =
                        AdminAnswered(in, errorResponse(404, "Key not found"),
                            <<"select users", "delete llm_api_keys">>, {})]
                 /\ llmApiKeys' = llmApiKeys
            ELSE /\ admin' = [admin EXCEPT ![a] =
                        AdminAnswered(in, successResponse({toSafeKey(k) : k \in rows}),
                            <<"select users", "delete llm_api_keys">>, rows)]
                 /\ llmApiKeys' = llmApiKeys \ rows
    /\ UNCHANGED <<endpointsTable, projects, endpoints, usageAnalytics, reqs, factory, call>>

\* The bodies of projectsRouter.post and projectsRouter.put
ProjectCreateBodies == {[NoBody EXCEPT !.project_name = Some(n)] : n \in NewProjectNames}
ProjectUpdateBodies ==
    {[NoBody EXCEPT !.project_name = n] : n \in {None, Some("shop"), Some("blog")}}
        \cup {[NoBody EXCEPT !.is_active = Some(v)] : v \in BOOLEAN}

\* projectsRouter.get "/"
projectsRouter_list(a) ==
    /\ admin[a].pc = "idle"
    /\ \E caller \in Users, userId \in Users :
         LET in == AdminArrived("projects.list", caller, userId, "", "", "", NoBody)
             rows == {p \in projects : p.user_id = caller}
         IN admin' = [admin EXCEPT ![a] =
              IF SubjectDiffers(caller, userId)
              THEN AdminAnswered(in,
                       errorResponse(403, "You can only access your own projects"),
                       <<>>, {})
              ELSE AdminAnswered(in, successResponse(rows),
                                 <<"select users", "select projects">>, rows)]
    /\ UNCHANGED <<endpointsTable, projects, endpoints, llmApiKeys, usageAnalytics, reqs, factory, call>>

\* projectsRouter.get "/:projectId"
projectsRouter_get(a) ==
    /\ admin[a].pc = "idle"
    /\ \E caller \in Users, userId \in Users, projectId \in ProjectPathIds :
         LET in == AdminArrived("projects.get", caller, userId, projectId, "", "",
                                NoBody)
             rows == {p \in projects : p.user_id = caller /\ p.uuid = projectId}
         IN admin' = [admin EXCEPT ![a] =
              IF ~IsUuid(projectId) THEN AdminAnswered(in, ValidationResponse, <<>>, {})
              ELSE IF SubjectDiffers(caller, userId)
              THEN AdminAnswered(in,
                       errorResponse(403, "You can only access your own projects"),
                       <<>>, {})
              ELSE IF rows = {}
              THEN AdminAnswered(in, errorResponse(404, "Project not found"),
                                 <<"select users", "select projects">>, {})
              ELSE AdminAnswered(in, successResponse(rows),
                                 <<"select users", "select projects">>, rows)]
    /\ UNCHANGED <<endpointsTable, projects, endpoints, llmApiKeys, usageAnalytics, reqs, factory, call>>

\* projectsRouter.post up to its insert: the duplicate check is a select of
\* its own, and the insert is awaited after it.
projectsRouter_post_check(a) ==
    /\ admin[a].pc = "idle"
    /\ \E caller \in Users, userId \in Users, body \in ProjectCreateBodies :
         LET in == AdminArrived("projects.post", caller, userId, "", "", "", body)
             existing == {p \in projects : /\ p.user_id = caller
                                           /\ p.project_name = body.project_name[1]}
         IN admin' = [admin EXCEPT ![a] =
              IF ~NameMatches(body.project_name[1])
              THEN AdminAnswered(in, ValidationResponse, <<>>, {})
              ELSE IF SubjectDiffers(caller, userId)
              THEN AdminAnswered(in,
                       errorResponse(403, "You can only create your own projects"),
                       <<>>, {})
              ELSE IF existing # {}
              THEN AdminAnswered(in, errorResponse(409, "Project name already exists"),
                                 <<"select users", "select projects">>, {})
              ELSE AdminAwaits(in, "write", None, <<"select users", "select projects">>)]
    /\ UNCHANGED <<endpointsTable, projects, endpoints, llmApiKeys, usageAnalytics, reqs, factory, call>>

\* unique_project_per_user: the rows that keep a row of this user and name out
ProjectNameTaken(rows, user, name, self) ==
    \E p \in rows : p.user_id = user /\ p.project_name = name /\ p.uuid # self

\* The insert of projectsRouter.post: a row the unique index rejects makes the
\* insert throw, and nothing catches it.
projectsRouter_post_insert(a) ==
    /\ admin[a].pc = "write"
    /\ admin[a].route = "projects.post"
    /\ IF ProjectNameTaken(projects, admin[a].caller, admin[a].body.project_name[1], "")
       THEN /\ admin' = [admin EXCEPT ![a] =
                   AdminAnswered(admin[a], UncaughtResponse,
                                 admin[a].touched \o <<"insert projects">>, {})]
            /\ projects' = projects
       ELSE /\ admin' = [admin EXCEPT ![a] =
                   AdminAnswered(admin[a],
                       createdResponse({ProjectRow(NewProjectIds[a], admin[a].caller,
                                                   admin[a].body.project_name[1], TRUE)}),
                       admin[a].touched \o <<"insert projects">>,
                       {ProjectRow(NewProjectIds[a], admin[a].caller,
                                   admin[a].body.project_name[1], TRUE)})]
            /\ projects' = projects \cup
                   {ProjectRow(NewProjectIds[a], admin[a].caller,
                               admin[a].body.project_name[1], TRUE)}
    /\ UNCHANGED <<endpointsTable, endpoints, llmApiKeys, usageAnalytics, reqs, factory, call>>

\* The body names a project name other than the one of the row read.
ChangesProjectName(body, current) ==
    Truthy(body.project_name) /\ body.project_name[1] # current.project_name

\* projectsRouter.put up to the return of its select of the project: the
\* handler goes on to the duplicate select when the body names another name,
\* else to its update.
projectsRouter_put_check(a) ==
    /\ admin[a].pc = "idle"
    /\ \E caller \in Users, userId \in Users, projectId \in ProjectPathIds,
          body \in ProjectUpdateBodies :
         LET in == AdminArrived("projects.put", caller, userId, projectId, "", "", body)
             existing == {p \in projects : p.user_id = caller /\ p.uuid = projectId}
         IN admin' = [admin EXCEPT ![a] =
              IF ~IsUuid(projectId) THEN AdminAnswered(in, ValidationResponse, <<>>, {})
              ELSE IF SubjectDiffers(caller, userId)
              THEN AdminAnswered(in,
                       errorResponse(403, "You can only update your own projects"),
                       <<>>, {})
              ELSE IF existing = {}
              THEN AdminAnswered(in, errorResponse(404, "Project not found"),
                                 <<"select users", "select projects">>, {})
              ELSE AdminAwaits(in,
                       IF ChangesProjectName(body, FirstRow(existing))
                       THEN "duplicate" ELSE "write",
                       Some(FirstRow(existing)), <<"select users", "select projects">>)]
    /\ UNCHANGED <<endpointsTable, projects, endpoints, llmApiKeys, usageAnalytics, reqs, factory, call>>

\* The duplicate select of projectsRouter.put
projectsRouter_put_duplicate(a) ==
    /\ admin[a].pc = "duplicate"
    /\ admin[a].route = "projects.put"
    /\ admin' = [admin EXCEPT ![a] =
          IF \E p \in projects : /\ p.user_id = admin[a].caller
                                 /\ p.project_name = admin[a].body.project_name[1]
          THEN AdminAnswered(admin[a], errorResponse(409, "Project name already exists"),
                             admin[a].touched \o <<"select projects">>, {})
          ELSE AdminAwaits(admin[a], "write", admin[a].current,
                           admin[a].touched \o <<"select projects">>)]
    /\ UNCHANGED <<endpointsTable, projects, endpoints, llmApiKeys, usageAnalytics, reqs, factory, call>>

\* The row projectsRouter.put sets: each column from the body, or from the row
\* the handler read
UpdatedProjectRow(stored, current, body) ==
    [stored EXCEPT
        !.project_name = Coalesce(body.project_name, Some(current.project_name))[1],
        !.is_active = Coalesce(body.is_active, Some(current.is_active))[1]]

\* The update of projectsRouter.put, where uuid = projectId
projectsRouter_put_update(a) ==
    /\ admin[a].pc = "write"
    /\ admin[a].route = "projects.put"
    /\ LET stored == {p \in projects : p.uuid = admin[a].projectId}
           written == {UpdatedProjectRow(p, admin[a].current[1], admin[a].body) :
                          p \in stored}
       IN IF \E w \in written :
                ProjectNameTaken(projects, w.user_id, w.project_name, w.uuid)
          THEN /\ admin' = [admin EXCEPT ![a] =
                      AdminAnswered(admin[a], UncaughtResponse,
                                    admin[a].touched \o <<"update projects">>, {})]
               /\ projects' = projects
          ELSE /\ admin' = [admin EXCEPT ![a] =
                      AdminAnswered(admin[a], successResponse(written),
                                    admin[a].touched \o <<"update projects">>, written)]
               /\ projects' = (projects \ stored) \cup written
    /\ UNCHANGED <<endpointsTable, endpoints, llmApiKeys, usageAnalytics, reqs, factory, call>>

\* projectsRouter.delete; endpoints.project_id and usage_analytics.endpoint_id
\* are ON DELETE CASCADE.
projectsRouter_delete(a) ==
    /\ admin[a].pc = "idle"
    /\ \E caller \in Users, userId \in Users, projectId \in ProjectPathIds :
         LET in == AdminArrived("projects.delete", caller, userId, projectId, "", "",
                                NoBody)
             rows == {p \in projects : p.user_id = caller /\ p.uuid = projectId}
             gone == {e \in endpoints : \E p \in rows : e.project_id = p.uuid}
         IN IF ~IsUuid(projectId) \/ SubjectDiffers(caller, userId) \/ rows = {}
            THEN /\ admin' = [admin EXCEPT ![a] =
                        IF ~IsUuid(projectId)
                        THEN AdminAnswered(in, ValidationResponse, <<>>, {})
                        ELSE IF SubjectDiffers(caller, userId)
                        THEN AdminAnswered(in,
                                 errorResponse(403,
                                     "You can only delete your own projects"),
                                 <<>>, {})
                        ELSE AdminAnswered(in, errorResponse(404, "Project not found"),
                                 <<"select users", "delete projects">>, {})]
                 /\ UNCHANGED <<endpointsTable, projects, endpoints, usageAnalytics>>
            ELSE /\ admin' = [admin EXCEPT ![a] =
                        AdminAnswered(in, successResponse(rows),
                                      <<"select users", "delete projects">>, rows)]
                 /\ projects' = projects \ rows
                 /\ endpoints' = endpoints \ gone
                 /\ usageAnalytics' = SelectSeq(usageAnalytics,
                        LAMBDA u : \A e \in gone : u.endpoint_id # e.uuid)
    /\ UNCHANGED <<endpointsTable, llmApiKeys, reqs, factory, call>>

\* The bodies of endpointsRouter.post and endpointsRouter.put
EndpointCreateBodies ==
    {[NoBody EXCEPT !.endpoint_name = Some(n), !.llm_key_id = Some(k)] :
        n \in NewEndpointNames, k \in BodyKeyIds \cup {"not-a-uuid"}}
        \cup {[NoBody EXCEPT !.endpoint_name = Some("fresh"), !.llm_key_id = Some("K1"),
                             !.endpoint_type = Some("structured_in_structured_out")]}
EndpointUpdateBodies ==
    {[NoBody EXCEPT !.endpoint_name = n, !.llm_key_id = k] :
        n \in {None, Some("classify"), Some("fresh")},
        k \in {None} \cup {Some(id) : id \in BodyKeyIds}}
        \cup {[NoBody EXCEPT !.is_active = Some(v)] : v \in BOOLEAN}

\* verifyProjectOwnership
verifyProjectOwnership(userUuid, projectId) ==
    {p \in projects : p.user_id = userUuid /\ p.uuid = projectId}

\* The mutant of verifyKeyOwnership: any stored key will do.
verifyKeyOwnership_anyOwner(userUuid, keyId) ==
    {k \in llmApiKeys : k.uuid = keyId}

\* verifyKeyOwnership
verifyKeyOwnership(userUuid, keyId) ==
    {k \in llmApiKeys : k.user_id = userUuid /\ k.uuid = keyId}

\* The start of every handler of endpointsRouter, once its validators passed or
\* not: the subject check, getUserByFirebaseUid and verifyProjectOwnership;
\* past them the handler awaits the statement named.
endpointsRouter_start(in, valid, verb, next) ==
    IF ~valid THEN AdminAnswered(in, ValidationResponse, <<>>, {})
    ELSE IF SubjectDiffers(in.caller, in.userId)
    THEN AdminAnswered(in,
             errorResponse(403, "You can only " \o verb \o " your own endpoints"),
             <<>>, {})
    ELSE IF verifyProjectOwnership(in.caller, in.projectId) = {}
    THEN AdminAnswered(in, errorResponse(404, "Project not found"),
                       <<"select users", "select projects">>, {})
    ELSE AdminAwaits(in, next, None, <<"select users", "select projects">>)

\* endpointsRouter.get "/" up to the return of verifyProjectOwnership
endpointsRouter_list(a) ==
    /\ admin[a].pc = "idle"
    /\ \E caller \in Users, userId \in Users, projectId \in ProjectPathIds :
         admin' = [admin EXCEPT ![a] =
            endpointsRouter_start(
                AdminArrived("endpoints.list", caller, userId, projectId, "", "", NoBody),
                IsUuid(projectId), "access", "endpoints")]
    /\ UNCHANGED <<endpointsTable, projects, endpoints, llmApiKeys, usageAnalytics, reqs, factory, call>>

\* The select of endpointsRouter.get "/"
endpointsRouter_list_select(a) ==
    /\ admin[a].pc = "endpoints"
    /\ admin[a].route = "endpoints.list"
    /\ admin' = [admin EXCEPT ![a] =
          IF EndpointsStatementThrows
          THEN AdminAnswered(admin[a], UncaughtResponse,
                             admin[a].touched \o <<"select endpoints">>, {})
          ELSE AdminAnswered(admin[a],
                   successResponse({e \in endpoints : e.project_id = admin[a].projectId}),
                   admin[a].touched \o <<"select endpoints">>,
                   {e \in endpoints : e.project_id = admin[a].projectId})]
    /\ UNCHANGED <<endpointsTable, projects, endpoints, llmApiKeys, usageAnalytics, reqs, factory, call>>

\* endpointsRouter.get "/:endpointId" up to the return of verifyProjectOwnership
endpointsRouter_get(a) ==
    /\ admin[a].pc = "idle"
    /\ \E caller \in Users, userId \in Users, projectId \in ProjectPathIds,
          endpointId \in EndpointPathIds :
         admin' = [admin EXCEPT ![a] =
            endpointsRouter_start(
                AdminArrived("endpoints.get", caller, userId, projectId, endpointId, "",
                             NoBody),
                IsUuid(projectId), "access", "endpoints")]
    /\ UNCHANGED <<endpointsTable, projects, endpoints, llmApiKeys, usageAnalytics, reqs, factory, call>>

\* select from endpoints where project_id and uuid match
EndpointRowsOf(projectId, endpointId) ==
    {e \in endpoints : e.project_id = projectId /\ e.uuid = endpointId}

\* The select of endpointsRouter.get "/:endpointId"
endpointsRouter_get_select(a) ==
    /\ admin[a].pc = "endpoints"
    /\ admin[a].route = "endpoints.get"
    /\ admin' = [admin EXCEPT ![a] =
          IF EndpointsStatementThrows
          THEN AdminAnswered(admin[a], UncaughtResponse,
                             admin[a].touched \o <<"select endpoints">>, {})
          ELSE IF EndpointRowsOf(admin[a].projectId, admin[a].endpointId) = {}
          THEN AdminAnswered(admin[a], errorResponse(404, "Endpoint not found"),
                             admin[a].touched \o <<"select endpoints">>, {})
          ELSE AdminAnswered(admin[a],
                   successResponse(EndpointRowsOf(admin[a].projectId, admin[a].endpointId)),
                   admin[a].touched \o <<"select endpoints">>,
                   EndpointRowsOf(admin[a].projectId, admin[a].endpointId))]
    /\ UNCHANGED <<endpointsTable, projects, endpoints, llmApiKeys, usageAnalytics, reqs, factory, call>>

\* endpointsRouter.post up to the return of verifyProjectOwnership
endpointsRouter_post_check(a) ==
    /\ admin[a].pc = "idle"
    /\ \E caller \in Users, userId \in Users, projectId \in ProjectPathIds,
          body \in EndpointCreateBodies :
         admin' = [admin EXCEPT ![a] =
            endpointsRouter_start(
                AdminArrived("endpoints.post", caller, userId, projectId, "", "", body),
                IsUuid(projectId) /\ IsUuid(body.llm_key_id[1]), "create", "key")]
    /\ UNCHANGED <<endpointsTable, projects, endpoints, llmApiKeys, usageAnalytics, reqs, factory, call>>

\* verifyKeyOwnership of endpointsRouter.post
endpointsRouter_post_key(a) ==
    /\ admin[a].pc = "key"
    /\ admin[a].route = "endpoints.post"
    /\ admin' = [admin EXCEPT ![a] =
          IF verifyKeyOwnership(admin[a].caller, admin[a].body.llm_key_id[1]) = {}
          THEN AdminAnswered(admin[a],
                   errorResponse(400, "LLM key not found or doesn't belong to you"),
                   admin[a].touched \o <<"select llm_api_keys">>, {})
          ELSE AdminAwaits(admin[a], "duplicate", None,
                           admin[a].touched \o <<"select llm_api_keys">>)]
    /\ UNCHANGED <<endpointsTable, projects, endpoints, llmApiKeys, usageAnalytics, reqs, factory, call>>

\* The duplicate select of endpointsRouter.post
endpointsRouter_post_duplicate(a) ==
    /\ admin[a].pc = "duplicate"
    /\ admin[a].route = "endpoints.post"
    /\ admin' = [admin EXCEPT ![a] =
          IF EndpointsStatementThrows
          THEN AdminAnswered(admin[a], UncaughtResponse,
                             admin[a].touched \o <<"select endpoints">>, {})
          ELSE IF \E e \in endpoints :
                     /\ e.project_id = admin[a].projectId
                     /\ e.endpoint_name = admin[a].body.endpoint_name[1]
          THEN AdminAnswered(admin[a],
                   errorResponse(409, "Endpoint name already exists in this project"),
                   admin[a].touched \o <<"select endpoints">>, {})
          ELSE AdminAwaits(admin[a], "write", None,
                           admin[a].touched \o <<"select endpoints">>)]
    /\ UNCHANGED <<endpointsTable, projects, endpoints, llmApiKeys, usageAnalytics, reqs, factory, call>>

\* The row endpointsRouter.post inserts: http_method defaults to POST, the
\* schemas and the description to null.  endpointCreateSchema declares neither
\* endpoint_type nor description, so the validated body has neither whatever
\* the request carried: the row is offered without a type, its description
\* null.
NewEndpointRow(a, projectId, body) ==
    [EndpointRow(NewEndpointIds[a], projectId, body.endpoint_name[1], "POST",
                 body.llm_key_id[1], TRUE)
        EXCEPT !.output_schema = None, !.description = None]

\* What makes an insert or update of an endpoints row throw: the unique index
\* unique_endpoint_per_project and the foreign keys to projects and keys
EndpointRowRejected(row) ==
    \/ \E e \in endpoints : /\ e.project_id = row.project_id
                            /\ e.endpoint_name = row.endpoint_name
                            /\ e.uuid # row.uuid
    \/ \A p \in projects : p.uuid # row.project_id
    \/ \A k \in llmApiKeys : k.uuid # row.llm_key_id

\* What makes an insert throw: the above, and the table of initDatabase, which
\* has no column `context` and whose endpoint_type is NOT NULL, the row being
\* without a type
EndpointInsertRejected(row) ==
    \/ EndpointsStatementThrows
    \/ endpointsTable = "initDatabase" /\ row.endpoint_type = None
    \/ EndpointRowRejected(row)

\* The insert of endpointsRouter.post
endpointsRouter_post_insert(a) ==
    /\ admin[a].pc = "write"
    /\ admin[a].route = "endpoints.post"
    /\ IF EndpointInsertRejected(NewEndpointRow(a, admin[a].projectId, admin[a].body))
       THEN /\ admin' = [admin EXCEPT ![a] =
                   AdminAnswered(admin[a], UncaughtResponse,
                                 admin[a].touched \o <<"insert endpoints">>, {})]
            /\ endpoints' = endpoints
       ELSE /\ admin' = [admin EXCEPT ![a] =
                   AdminAnswered(admin[a],
                       createdResponse({NewEndpointRow(a, admin[a].projectId,
                                                       admin[a].body)}),
                       admin[a].touched \o <<"insert endpoints">>,
                       {NewEndpointRow(a, admin[a].projectId, admin[a].body)})]
            /\ endpoints' = endpoints \cup
                   {NewEndpointRow(a, admin[a].projectId, admin[a].body)}
    /\ UNCHANGED <<endpointsTable, projects, llmApiKeys, usageAnalytics, reqs, factory, call>>

\* endpointsRouter.put up to the return of verifyProjectOwnership
endpointsRouter_put_check(a) ==
    /\ admin[a].pc = "idle"
    /\ \E caller \in Users, userId \in Users, projectId \in ProjectPathIds,
          endpointId \in EndpointPathIds, body \in EndpointUpdateBodies :
         admin' = [admin EXCEPT ![a] =
            endpointsRouter_start(
                AdminArrived("endpoints.put", caller, userId, projectId, endpointId, "",
                             body),
                IsUuid(projectId), "update", "endpoints")]
    /\ UNCHANGED <<endpointsTable, projects, endpoints, llmApiKeys, usageAnalytics, reqs, factory, call>>

\* The body names a key, or an endpoint name, other than the one of the row read.
ChangesKey(body, current) ==
    Truthy(body.llm_key_id) /\ body.llm_key_id[1] # current.llm_key_id
ChangesEndpointName(body, current) ==
    Truthy(body.endpoint_name) /\ body.endpoint_name[1] # current.endpoint_name

\* The select of the endpoint by endpointsRouter.put: the handler goes on to
\* verifyKeyOwnership when the body names another key, else to the duplicate
\* select when it names another name, else to its update.
endpointsRouter_put_existing(a) ==
    /\ admin[a].pc = "endpoints"
    /\ admin[a].route = "endpoints.put"
    /\ admin' = [admin EXCEPT ![a] =
          IF EndpointsStatementThrows
          THEN AdminAnswered(admin[a], UncaughtResponse,
                             admin[a].touched \o <<"select endpoints">>, {})
          ELSE IF EndpointRowsOf(admin[a].projectId, admin[a].endpointId) = {}
          THEN AdminAnswered(admin[a], errorResponse(404, "Endpoint not found"),
                             admin[a].touched \o <<"select endpoints">>, {})
          ELSE AdminAwaits(admin[a],
                   IF ChangesKey(admin[a].body,
                          FirstRow(EndpointRowsOf(admin[a].projectId, admin[a].endpointId)))
                   THEN "key"
                   ELSE IF ChangesEndpointName(admin[a].body,
                          FirstRow(EndpointRowsOf(admin[a].projectId, admin[a].endpointId)))
                   THEN "duplicate" ELSE "write",
                   Some(FirstRow(EndpointRowsOf(admin[a].projectId, admin[a].endpointId))),
                   admin[a].touched \o <<"select endpoints">>)]
    /\ UNCHANGED <<endpointsTable, projects, endpoints, llmApiKeys, usageAnalytics, reqs, factory, call>>

\* verifyKeyOwnership of endpointsRouter.put
endpointsRouter_put_key(a) ==
    /\ admin[a].pc = "key"
    /\ admin[a].route = "endpoints.put"
    /\ admin' = [admin EXCEPT ![a] =
          IF verifyKeyOwnership(admin[a].caller, admin[a].body.llm_key_id[1]) = {}
          THEN AdminAnswered(admin[a],
                   errorResponse(400, "LLM key not found or doesn't belong to you"),
                   admin[a].touched \o <<"select llm_api_keys">>, {})
          ELSE AdminAwaits(admin[a],
                   IF ChangesEndpointName(admin[a].body, admin[a].current[1])
                   THEN "duplicate" ELSE "write",
                   admin[a].current, admin[a].touched \o <<"select llm_api_keys">>)]
    /\ UNCHANGED <<endpointsTable, projects, endpoints, llmApiKeys, usageAnalytics, reqs, factory, call>>

\* The duplicate select of endpointsRouter.put
endpointsRouter_put_duplicate(a) ==
    /\ admin[a].pc = "duplicate"
    /\ admin[a].route = "endpoints.put"
    /\ admin' = [admin EXCEPT ![a] =
          IF EndpointsStatementThrows
          THEN AdminAnswered(admin[a], UncaughtResponse,
                             admin[a].touched \o <<"select endpoints">>, {})
          ELSE IF \E e \in endpoints :
                     /\ e.project_id = admin[a].projectId
                     /\ e.endpoint_name = admin[a].body.endpoint_name[1]
          THEN AdminAnswered(admin[a],
                   errorResponse(409, "Endpoint name already exists in this project"),
                   admin[a].touched \o <<"select endpoints">>, {})
          ELSE AdminAwaits(admin[a], "write", admin[a].current,
                           admin[a].touched \o <<"select endpoints">>)]
    /\ UNCHANGED <<endpointsTable, projects, endpoints, llmApiKeys, usageAnalytics, reqs, factory, call>>

\* The row endpointsRouter.put sets
UpdatedEndpointRow(stored, current, body) ==
    [stored EXCEPT
        !.endpoint_name = Coalesce(body.endpoint_name, Some(current.endpoint_name))[1],
        !.llm_key_id = Coalesce(body.llm_key_id, Some(current.llm_key_id))[1],
        !.http_method = current.http_method,
        !.endpoint_type = current.endpoint_type,
        !.output_schema = current.output_schema,
        !.description = current.description,
        !.is_active = Coalesce(body.is_active, Some(current.is_active))[1]]

\* The update of endpointsRouter.put, where uuid = endpointId
endpointsRouter_put_update(a) ==
    /\ admin[a].pc = "write"
    /\ admin[a].route = "endpoints.put"
    /\ LET stored == {e \in endpoints : e.uuid = admin[a].endpointId}
           written == {UpdatedEndpointRow(e, admin[a].current[1], admin[a].body) :
                          e \in stored}
       IN IF EndpointsStatementThrows \/ \E w \in written : EndpointRowRejected(w)
          THEN /\ admin' = [admin EXCEPT ![a] =
                      AdminAnswered(admin[a], UncaughtResponse,
                                    admin[a].touched \o <<"update endpoints">>, {})]
               /\ endpoints' = endpoints
          ELSE /\ admin' = [admin EXCEPT ![a] =
                      AdminAnswered(admin[a], successResponse(written),
                                    admin[a].touched \o <<"update endpoints">>, written)]
               /\ endpoints' = (endpoints \ stored) \cup written
    /\ UNCHANGED <<endpointsTable, projects, llmApiKeys, usageAnalytics, reqs, factory, call>>

\* endpointsRouter.delete up to the return of verifyProjectOwnership
endpointsRouter_delete(a) ==
    /\ admin[a].pc = "idle"
    /\ \E caller \in Users, userId \in Users, projectId \in ProjectPathIds,
          endpointId \in EndpointPathIds :
         admin' = [admin EXCEPT ![a] =
            endpointsRouter_start(
                AdminArrived("endpoints.delete", caller, userId, projectId, endpointId,
                             "", NoBody),
                IsUuid(projectId), "delete", "delete")]
    /\ UNCHANGED <<endpointsTable, projects, endpoints, llmApiKeys, usageAnalytics, reqs, factory, call>>

\* The delete of endpointsRouter.delete, where project_id and uuid match;
\* usage_analytics.endpoint_id is ON DELETE CASCADE.
endpointsRouter_delete_rows(a) ==
    /\ admin[a].pc = "delete"
    /\ admin[a].route = "endpoints.delete"
    /\ IF EndpointsStatementThrows
          \/ EndpointRowsOf(admin[a].projectId, admin[a].endpointId) = {}
       THEN /\ admin' = [admin EXCEPT ![a] =
                   IF EndpointsStatementThrows
                   THEN AdminAnswered(admin[a], UncaughtResponse,
                                      admin[a].touched \o <<"delete endpoints">>, {})
                   ELSE AdminAnswered(admin[a], errorResponse(404, "Endpoint not found"),
                                      admin[a].touched \o <<"delete endpoints">>, {})]
            /\ UNCHANGED <<endpoints, usageAnalytics>>
       ELSE /\ admin' = [admin EXCEPT ![a] =
                   AdminAnswered(admin[a],
                       successResponse(EndpointRowsOf(admin[a].projectId,
                                                      admin[a].endpointId)),
                       admin[a].touched \o <<"delete endpoints">>,
                       EndpointRowsOf(admin[a].projectId, admin[a].endpointId))]
            /\ endpoints' = endpoints \ EndpointRowsOf(admin[a].projectId,
                                                       admin[a].endpointId)
            /\ usageAnalytics' = SelectSeq(usageAnalytics,
                   LAMBDA u : u.endpoint_id # admin[a].endpointId)
    /\ UNCHANGED <<endpointsTable, projects, llmApiKeys, reqs, factory, call>>

\* analyticsQuerySchema: the project_id of the query, when present, is a UUID
AnalyticsQueries == {None, Some("P1"), Some("not-a-uuid")}

\* The aggregate of the usage rows of the endpoints chosen
UsageAggregate(endpointIds) ==
    LET chosen == SelectSeq(usageAnalytics, LAMBDA u : u.endpoint_id \in endpointIds)
    IN [total_requests |-> Len(chosen),
        successful_requests |-> Len(SelectSeq(chosen, LAMBDA u : u.success)),
        failed_requests |-> Len(SelectSeq(chosen, LAMBDA u : ~u.success))]

\* The aggregates grouped by endpoint_id: one for each endpoint chosen that has
\* a usage row
UsageByEndpoint(endpointIds) ==
    {[endpoint_id |-> id, usage |-> UsageAggregate({id})] :
        id \in {i \in endpointIds :
                   \E n \in 1..Len(usageAnalytics) : usageAnalytics[n].endpoint_id = i}}

\* successResponse({ aggregate, by_endpoint })
AnalyticsResponse(aggregate, byEndpoint) ==
    successResponse([aggregate |-> aggregate, by_endpoint |-> byEndpoint])

\* analyticsRouter.get up to the return of its select of the user's projects
analyticsRouter_get(a) ==
    /\ admin[a].pc = "idle"
    /\ \E caller \in Users, userId \in Users, project_id \in AnalyticsQueries :
         LET in == AdminArrived("analytics.get", caller, userId,
                                IF project_id = None THEN "" ELSE project_id[1],
                                "", "", NoBody)
         IN admin' = [admin EXCEPT ![a] =
              IF project_id # None /\ ~IsUuid(project_id[1])
              THEN AdminAnswered(in, ValidationResponse, <<>>, {})
              ELSE IF SubjectDiffers(caller, userId)
              THEN AdminAnswered(in,
                       errorResponse(403, "You can only access your own analytics"),
                       <<>>, {})
              ELSE IF {p \in projects : p.user_id = caller} = {}
              THEN AdminAnswered(in, AnalyticsResponse(UsageAggregate({}), {}),
                                 <<"select users", "select projects">>, {})
              ELSE [AdminAwaits(in, "endpoints", None,
                                <<"select users", "select projects">>)
                       EXCEPT !.selected = {p.uuid : p \in {x \in projects :
                                                               x.user_id = caller}}]]
    /\ UNCHANGED <<endpointsTable, projects, endpoints, llmApiKeys, usageAnalytics, reqs, factory, call>>

\* The endpoints an analytics request chose: those of the projects it read,
\* and of the project its query names
ChosenEndpoints(projectIds, project_id) ==
    {e.uuid : e \in {x \in endpoints : /\ x.project_id \in projectIds
                                       /\ project_id \in {"", x.project_id}}}

\* The select of the endpoints of the user's projects by analyticsRouter.get,
\* and the choice of those of the project the query names
analyticsRouter_get_endpoints(a) ==
    /\ admin[a].pc = "endpoints"
    /\ admin[a].route = "analytics.get"
    /\ admin' = [admin EXCEPT ![a] =
          IF EndpointsStatementThrows
          THEN AdminAnswered(admin[a], UncaughtResponse,
                             admin[a].touched \o <<"select endpoints">>, {})
          ELSE IF ChosenEndpoints(admin[a].selected, admin[a].projectId) = {}
          THEN AdminAnswered(admin[a], AnalyticsResponse(UsageAggregate({}), {}),
                             admin[a].touched \o <<"select endpoints">>, {})
          ELSE [AdminAwaits(admin[a], "aggregate", None,
                            admin[a].touched \o <<"select endpoints">>)
                   EXCEPT !.selected = ChosenEndpoints(admin[a].selected,
                                                       admin[a].projectId)]]
    /\ UNCHANGED <<endpointsTable, projects, endpoints, llmApiKeys, usageAnalytics, reqs, factory, call>>

\* The aggregate select of analyticsRouter.get
analyticsRouter_get_aggregate(a) ==
    /\ admin[a].pc = "aggregate"
    /\ admin[a].route = "analytics.get"
    /\ admin' = [admin EXCEPT ![a] =
          [AdminAwaits(admin[a], "byEndpoint", None,
                       admin[a].touched \o <<"select usage_analytics">>)
              EXCEPT !.aggregate = Some(UsageAggregate(admin[a].selected))]]
    /\ UNCHANGED <<endpointsTable, projects, endpoints, llmApiKeys, usageAnalytics, reqs, factory, call>>

\* The select grouped by endpoint of analyticsRouter.get, and the response
analyticsRouter_get_byEndpoint(a) ==
    /\ admin[a].pc = "byEndpoint"
    /\ admin[a].route = "analytics.get"
    /\ admin' = [admin EXCEPT ![a] =
          AdminAnswered(admin[a],
              AnalyticsResponse(admin[a].aggregate[1], UsageByEndpoint(admin[a].selected)),
              admin[a].touched \o <<"select usage_analytics">>, {})]
    /\ UNCHANGED <<endpointsTable, projects, endpoints, llmApiKeys, usageAnalytics, reqs, factory, call>>


\* The usage objects a provider's response can carry: none, either naming with
\* and without a total, one count alone, and an empty object
UsageReports ==
    {None,
     Some(RawUsage(Some(12), Some(7), Some(19), None, None)),
     Some(RawUsage(Some(12), Some(7), None, None, None)),
     Some(RawUsage(None, None, None, Some(12), Some(7))),
     Some(RawUsage(None, None, Some(19), Some(12), Some(7))),
     Some(RawUsage(None, Some(7), None, None, None)),
     Some(RawUsage(None, None, None, None, None))}

\* generate of an adapter of each class on a well-formed answer with the usage
\* the provider reports
GenerateUsageCall ==
    /\ call = NoCall
    /\ \E provider \in LlmProviders, usage \in UsageReports :
          call' = Called("generate",
                         [adapter |-> AdapterOf(provider),
                          request |-> LLMRequest(<<"p">>, <<"s">>, NameSchema),
                          reply |-> Reply("ok", usage, 40)],
                         generate(AdapterOf(provider),
                                  LLMRequest(<<"p">>, <<"s">>, NameSchema),
                                  Reply("ok", usage, 40)))
    /\ UNCHANGED <<endpointsTable, projects, endpoints, llmApiKeys, usageAnalytics, reqs, factory, admin>>


\* The texts a custom server answers with, each as the response field of a body
AnswerTexts == {Joined(pieces) : pieces \in KnownPieces}
TextBody(text) == JObj(<<Member("response", JStr(text))>>)

\* Bodies of none of the shapes, with a text in a field of another name, and a
\* tool-use block without its input
NoteBody(text) == JObj(<<Member("note", JStr(text))>>)
TextBodies ==
    {TextBody(text) : text \in AnswerTexts}
        \cup {NoteBody(text) : text \in AnswerTexts}
        \cup {JObj(<<Member("content",
                        JArr(<<JObj(<<Member("type", JStr("tool_use"))>>)>>))>>)}

\* encryptApiKey on its own, under each environment and each drawn IV
EncryptApiKeyCall ==
    /\ call = NoCall
    /\ \E keyHex \in EnvKeys, plainText \in ApiKeyPlaintexts, iv \in RandomIvs :
          call' = Called("encryptApiKey",
                         [keyHex |-> keyHex, plainText |-> plainText, iv |-> iv],
                         encryptApiKey(keyHex, plainText, iv))
    /\ UNCHANGED <<endpointsTable, projects, endpoints, llmApiKeys, usageAnalytics, reqs, factory, admin>>

\* decryptApiKey on its own: every ciphertext of the model and one that is
\* no encryption, under every IV and one string that is no IV
DecryptApiKeyCall ==
    /\ call = NoCall
    /\ \E keyHex \in EnvKeys,
          encrypted \in {Ciphertext(p, iv) : p \in ApiKeyPlaintexts, iv \in Ivs}
                           \cup {"encrypted"},
          ivHex \in Ivs \cup {"zz"} :
          call' = Called("decryptApiKey",
                         [keyHex |-> keyHex, encrypted |-> encrypted, ivHex |-> ivHex],
                         decryptApiKey(keyHex, encrypted, ivHex))
    /\ UNCHANGED <<endpointsTable, projects, endpoints, llmApiKeys, usageAnalytics, reqs, factory, admin>>

\* CustomLLMProvider.generate on a 2xx body whose response field is the text
CustomTextCall ==
    /\ call = NoCall
    /\ \E body \in TextBodies, request \in {LLMRequest(<<"p">>, <<"s">>, NameSchema)} :
          LET reply == BodyReply(body, None)
          IN call' = Called("CustomLLMProvider.generate",
                            [adapter |-> AdapterOf("llm_server"), request |-> request,
                             reply |-> reply],
                            CustomGenerate(AdapterOf("llm_server"), request, reply))
    /\ UNCHANGED <<endpointsTable, projects, endpoints, llmApiKeys, usageAnalytics, reqs, factory, admin>>


(***************************************************************************)
(* Specifications                                                          *)
(***************************************************************************)
InitStore ==
    /\ endpointsTable \in EndpointsTables
    /\ projects = InitialProjects
    /\ endpoints = (IF endpointsTable = "schema" THEN InitialEndpoints ELSE {})
    /\ llmApiKeys = InitialLlmApiKeys
    /\ usageAnalytics = <<>>
    /\ factory = NoFactoryCall
    /\ call = NoCall

Init ==
    /\ InitStore
    /\ reqs = [r \in 1..MaxRequests |-> IdleRequest]
    /\ admin = [a \in 1..MaxUpdates |-> IdleAdmin]

\* The owner's requests are numbered in their order of arrival.
Arrives(a) == \A b \in 1..(a - 1) : admin[b].pc # "idle"

\* The values of is_active an update can carry: none, true, false
ActiveUpdates == {None, Some(TRUE), Some(FALSE)}

\* The request that arrived is an update by the first tenant of its project
\* `shop`, or of the endpoint `classify` of it, whose body carries at most
\* is_active.
ActivationUpdate(a) ==
    /\ admin'[a].caller = UserA
    /\ admin'[a].userId = UserA
    /\ admin'[a].projectId = "P1"
    /\ admin'[a].endpointId \in {"", "E1"}
    /\ admin'[a].body \in {[NoBody EXCEPT !.is_active = v] : v \in ActiveUpdates}

\* Consumer requests on the three routes, and the owner's updates of is_active
Next ==
    \/ \E r \in DOMAIN reqs : validateAndGetContext_projects(r)
    \/ \E r \in DOMAIN reqs : validateAndGetContext_endpoints(r)
    \/ \E r \in DOMAIN reqs : handleAIRequest(r)
    \/ \E r \in DOMAIN reqs : handleAIRequest_settle(r)
    \/ \E r \in DOMAIN reqs : handleAIRequest_respond(r)
    \/ \E r \in DOMAIN reqs : handlePromptRequest(r)
    \/ \E r \in DOMAIN reqs : handleAIRequestLegacy(r)
    \/ \E a \in DOMAIN admin :
          Arrives(a) /\ projectsRouter_put_check(a) /\ ActivationUpdate(a)
    \/ \E a \in DOMAIN admin : projectsRouter_put_update(a)
    \/ \E a \in DOMAIN admin :
          Arrives(a) /\ endpointsRouter_put_check(a) /\ ActivationUpdate(a)
    \/ \E a \in DOMAIN admin : endpointsRouter_put_existing(a)
    \/ \E a \in DOMAIN admin : endpointsRouter_put_update(a)

Spec == Init /\ [][Next]_vars

\* Concurrent executions of one endpoint on the route of routes/ai.ts
SameEndpoint(r) ==
    /\ reqs'[r].route = "ai"
    /\ reqs'[r].projectName = "shop"
    /\ reqs'[r].endpointName = "classify"
    /\ reqs'[r].method = "POST"
    /\ reqs'[r].payload = PayloadEmpty
    /\ reqs'[r].org = <<"a", "c", "m", "e">>

InitConcurrent ==
    /\ InitStore
    /\ reqs = [r \in 1..MaxConcurrent |-> IdleRequest]
    /\ admin = [a \in 1..MaxUpdates |-> IdleAdmin]

NextConcurrent ==
    \/ \E r \in DOMAIN reqs : validateAndGetContext_projects(r) /\ SameEndpoint(r)
    \/ \E r \in DOMAIN reqs : validateAndGetContext_endpoints(r)
    \/ \E r \in DOMAIN reqs : handleAIRequest(r)
    \/ \E r \in DOMAIN reqs : handleAIRequest_settle(r)
    \/ \E r \in DOMAIN reqs : handleAIRequest_respond(r)

SpecConcurrent == InitConcurrent /\ [][NextConcurrent]_vars

\* Requests to one endpoint, executions and previews, while its owner's updates
\* of is_active, of the endpoint and of its project, are under way
SameAddress(r) ==
    /\ reqs'[r].projectName = "shop"
    /\ reqs'[r].endpointName = "classify"
    /\ reqs'[r].method = "POST"
    /\ reqs'[r].payload = PayloadEmpty
    /\ reqs'[r].org = <<"a", "c", "m", "e">>

InitActivation ==
    /\ InitStore
    /\ reqs = [r \in 1..MaxLookups |-> IdleRequest]
    /\ admin = [a \in 1..MaxAdmin |-> IdleAdmin]

NextActivation ==
    \/ \E r \in DOMAIN reqs : validateAndGetContext_projects(r) /\ SameAddress(r)
    \/ \E r \in DOMAIN reqs : validateAndGetContext_endpoints(r)
    \/ \E r \in DOMAIN reqs : handleAIRequest(r)
    \/ \E r \in DOMAIN reqs : handleAIRequest_settle(r)
    \/ \E r \in DOMAIN reqs : handleAIRequest_respond(r)
    \/ \E r \in DOMAIN reqs : handlePromptRequest(r)
    \/ \E a \in DOMAIN admin :
          Arrives(a) /\ projectsRouter_put_check(a) /\ ActivationUpdate(a)
    \/ \E a \in DOMAIN admin : projectsRouter_put_update(a)
    \/ \E a \in DOMAIN admin :
          Arrives(a) /\ endpointsRouter_put_check(a) /\ ActivationUpdate(a)
    \/ \E a \in DOMAIN admin : endpointsRouter_put_existing(a)
    \/ \E a \in DOMAIN admin : endpointsRouter_put_update(a)

SpecActivation == InitActivation /\ [][NextActivation]_vars

NextFactory == CreateProvider \/ UseProvider

SpecFactory == Init /\ [][NextFactory]_vars

\* The library functions, each called once on its own
NextLibrary ==
    \/ BuildApiPayloadCall
    \/ AnthropicGenerateCall
    \/ CustomGenerateCall
    \/ EstimateCostCall
    \/ SchemaToPromptInstructionsCall
    \/ GenerateSchemaExampleCall
    \/ ApiHelperPromptCall
    \/ BuildLegacyPromptsCall
    \/ CustomTextCall
    \/ GenerateUsageCall
    \/ EncryptApiKeyCall
    \/ DecryptApiKeyCall

SpecLibrary == Init /\ [][NextLibrary]_vars

\* The owner's routes under concurrent requests
InitAdmin ==
    /\ InitStore
    /\ reqs = [r \in 1..MaxRequests |-> IdleRequest]
    /\ admin = [a \in 1..MaxAdmin |-> IdleAdmin]

NextAdmin ==
    \/ \E a \in DOMAIN admin : Arrives(a) /\ keysRouter_list(a)
    \/ \E a \in DOMAIN admin : Arrives(a) /\ keysRouter_get(a)
    \/ \E a \in DOMAIN admin : Arrives(a) /\ keysRouter_post(a)
    \/ \E a \in DOMAIN admin : Arrives(a) /\ keysRouter_put(a)
    \/ \E a \in DOMAIN admin : keysRouter_put_update(a)
    \/ \E a \in DOMAIN admin : Arrives(a) /\ keysRouter_delete(a)
    \/ \E a \in DOMAIN admin : Arrives(a) /\ projectsRouter_list(a)
    \/ \E a \in DOMAIN admin : Arrives(a) /\ projectsRouter_get(a)
    \/ \E a \in DOMAIN admin : Arrives(a) /\ projectsRouter_post_check(a)
    \/ \E a \in DOMAIN admin : projectsRouter_post_insert(a)
    \/ \E a \in DOMAIN admin : Arrives(a) /\ projectsRouter_put_check(a)
    \/ \E a \in DOMAIN admin : projectsRouter_put_duplicate(a)
    \/ \E a \in DOMAIN admin : projectsRouter_put_update(a)
    \/ \E a \in DOMAIN admin : Arrives(a) /\ projectsRouter_delete(a)
    \/ \E a \in DOMAIN admin : Arrives(a) /\ endpointsRouter_list(a)
    \/ \E a \in DOMAIN admin : endpointsRouter_list_select(a)
    \/ \E a \in DOMAIN admin : Arrives(a) /\ endpointsRouter_get(a)
    \/ \E a \in DOMAIN admin : endpointsRouter_get_select(a)
    \/ \E a \in DOMAIN admin : Arrives(a) /\ endpointsRouter_post_check(a)
    \/ \E a \in DOMAIN admin : endpointsRouter_post_key(a)
    \/ \E a \in DOMAIN admin : endpointsRouter_post_duplicate(a)
    \/ \E a \in DOMAIN admin : endpointsRouter_post_insert(a)
    \/ \E a \in DOMAIN admin : Arrives(a) /\ endpointsRouter_put_check(a)
    \/ \E a \in DOMAIN admin : endpointsRouter_put_existing(a)
    \/ \E a \in DOMAIN admin : endpointsRouter_put_key(a)
    \/ \E a \in DOMAIN admin : endpointsRouter_put_duplicate(a)
    \/ \E a \in DOMAIN admin : endpointsRouter_put_update(a)
    \/ \E a \in DOMAIN admin : Arrives(a) /\ endpointsRouter_delete(a)
    \/ \E a \in DOMAIN admin : endpointsRouter_delete_rows(a)
    \/ \E a \in DOMAIN admin : Arrives(a) /\ analyticsRouter_get(a)
    \/ \E a \in DOMAIN admin : analyticsRouter_get_endpoints(a)
    \/ \E a \in DOMAIN admin : analyticsRouter_get_aggregate(a)
    \/ \E a \in DOMAIN admin : analyticsRouter_get_byEndpoint(a)

SpecAdmin == InitAdmin /\ [][NextAdmin]_vars

\* Sequences and interleavings of endpoint create and update requests alone
NextEndpoints ==
    \/ \E a \in DOMAIN admin : Arrives(a) /\ endpointsRouter_post_check(a)
    \/ \E a \in DOMAIN admin : endpointsRouter_post_key(a)
    \/ \E a \in DOMAIN admin : endpointsRouter_post_duplicate(a)
    \/ \E a \in DOMAIN admin : endpointsRouter_post_insert(a)
    \/ \E a \in DOMAIN admin : Arrives(a) /\ endpointsRouter_put_check(a)
    \/ \E a \in DOMAIN admin : endpointsRouter_put_existing(a)
    \/ \E a \in DOMAIN admin : endpointsRouter_put_key(a)
    \/ \E a \in DOMAIN admin : endpointsRouter_put_duplicate(a)
    \/ \E a \in DOMAIN admin : endpointsRouter_put_update(a)

SpecEndpoints == InitAdmin /\ [][NextEndpoints]_vars


(***************************************************************************)
(* Properties                                                              *)
(***************************************************************************)
\* The analytics rows an execution wrote
RowsOf(r) == SelectSeq(usageAnalytics, LAMBDA row : row.exec = r)

\* The request is an execution (not a prompt preview) that has arrived.
IsExecution(q) == q.route \in {"ai", "legacy"}

\* The provider's generate was invoked and raised.
GenerateRaised(q) == q.llmResponse # None /\ ~q.llmResponse[1].ok

\* C1: when generate raises, the execution has written exactly one analytics
\* row, with success false, the raise's non-empty message and a latency, by the
\* time its answer is decided; the answer is a 5xx whose error is
\* "LLM processing failed: " followed by that message, and no response has left
\* before the row was written.
C1_FailedGenerateLoggedThenAnswered ==
    \A r \in DOMAIN reqs :
        LET q == reqs[r] IN
        GenerateRaised(q) =>
            /\ Len(RowsOf(r)) = 1
            /\ RowsOf(r)[1].success = FALSE
            /\ RowsOf(r)[1].error_message = Some(q.llmResponse[1].error)
            /\ q.llmResponse[1].error # ""
            /\ RowsOf(r)[1].latency_ms # None
            /\ q.pending.status \in 500..599
            /\ q.pending.error = "LLM processing failed: " \o q.llmResponse[1].error
            /\ q.response.status \in {0, q.pending.status}
            /\ (q.pc = "done" => q.response.error = q.pending.error)

\* C1 witness: an execution whose generate raised has been answered.
C1_Witness ==
    \E r \in DOMAIN reqs :
        /\ GenerateRaised(reqs[r])
        /\ reqs[r].pc = "done"
        /\ reqs[r].response.status = 500
        /\ Len(RowsOf(r)) = 1

\* The request was answered by an execution that resolved an endpoint its
\* owner declared of a kind that calls the LLM, and its credential row.
ResolvedLLMExecution(q) ==
    /\ IsExecution(q)
    /\ q.pc = "done"
    /\ q.endpoint # None
    /\ q.llmKey # None
    /\ callsLLM(Some(DeclaredType(q.endpoint[1].uuid)))

\* C2: every answered execution of an LLM-calling endpoint that resolved its
\* endpoint and its credential has written exactly one analytics row, whichever
\* way it ended (decryption or construction failed, generate failed or
\* succeeded, the success path's insert failed).
C2_EveryResolvedExecutionLogsOnce ==
    \A r \in DOMAIN reqs :
        ResolvedLLMExecution(reqs[r]) => Len(RowsOf(r)) = 1

\* C3: an execution of an endpoint declared of a payload-only kind never
\* invokes generate and writes no analytics row, and when it succeeds its
\* response data is the api payload, the provider and the endpoint hint.
C3_PayloadOnlyNeverGenerates ==
    \A r \in DOMAIN reqs :
        LET q == reqs[r] IN
        (/\ IsExecution(q)
         /\ q.endpoint # None
         /\ IsPayloadOnlyKind(Some(DeclaredType(q.endpoint[1].uuid)))) =>
            /\ \A i \in 1..Len(q.calls) : q.calls[i] # "generate"
            /\ q.pc \notin {"generate", "respond"}
            /\ Len(RowsOf(r)) = 0
            /\ (q.response.success =>
                   DOMAIN q.response.data = {"api_payload", "provider", "endpoint_hint"})

\* C4: an execution addressed, with the endpoint's verb, to an endpoint
\* declared of a text-input kind and carrying no string-valued text field is
\* answered 400 as soon as the endpoint is resolved, with no adapter
\* constructed, no provider call and no analytics row.
C4_TextKindRequiresText ==
    \A r \in DOMAIN reqs :
        LET q == reqs[r] IN
        (/\ IsExecution(q)
         /\ q.endpoint # None
         /\ IsTextKind(Some(DeclaredType(q.endpoint[1].uuid)))
         /\ q.method = q.endpoint[1].http_method
         /\ ~HasStringText(q.payload)) =>
            /\ q.pc = "done"
            /\ q.response.status = 400
            /\ q.adapter = None
            /\ \A i \in 1..Len(q.calls) :
                  q.calls[i] \notin {"createLLMProvider", "generate"}
            /\ Len(RowsOf(r)) = 0

\* The request resolved an endpoint whose declared verb is not the request's.
VerbMismatch(q) ==
    /\ q.pc # "idle"
    /\ q.endpoint # None
    /\ q.method # q.endpoint[1].http_method

\* C5: a request (execution or preview) whose verb differs from the one the
\* resolved endpoint declares is answered 405; no input was parsed, no
\* credential resolved or decrypted, no adapter constructed, no row written.
C5_VerbMismatchIs405 ==
    \A r \in DOMAIN reqs :
        LET q == reqs[r] IN
        VerbMismatch(q) =>
            /\ q.pc = "done"
            /\ q.response.status = 405
            /\ q.calls = <<>>
            /\ q.llmKey = None
            /\ q.adapter = None
            /\ Len(RowsOf(r)) = 0

\* C5 witness: a POST to an endpoint declared GET was answered 405.
C5_Witness ==
    \E r \in DOMAIN reqs :
        /\ VerbMismatch(reqs[r])
        /\ reqs[r].method = "POST"
        /\ reqs[r].payload = PayloadText
        /\ reqs[r].response.status = 405


\* The project rows a request's names denote: those of the project name and of
\* a user the organization lookup can return
AddressedProjects(q) ==
    {p \in projects : /\ p.project_name = q.projectName
                      /\ p.user_id \in findUserByOrgPath(q.org)}

\* The endpoint rows of the request's endpoint name in the project it resolved
AddressedEndpoints(q) ==
    {e \in endpoints : /\ e.endpoint_name = q.endpointName
                       /\ e.project_id = q.project[1].uuid}

\* The request was answered "not found" with nothing parsed, no key looked up,
\* no adapter constructed and no call made.
NotFound(q) ==
    /\ q.pc = "done"
    /\ q.response.status = 404
    /\ q.calls = <<>>
    /\ q.llmKey = None
    /\ q.adapter = None

\* C6: while a project is deactivated, every execution and every prompt
\* preview whose project lookup is made for its name is answered 404; while an
\* endpoint is deactivated, every execution and preview whose endpoint lookup
\* is made for its name is answered 404; in both cases nothing is parsed, no
\* provider is called and no analytics row is written.  A row is deactivated
\* from the update that stores is_active false until an update stores true
\* again, which an update under way does when it read the row before: it
\* writes back the is_active it read.
C6_DeactivatedIsNotFound ==
    [][\A r \in DOMAIN reqs :
          /\ (/\ reqs[r].pc = "idle"
              /\ reqs'[r].pc # "idle"
              /\ aiParamSchema(reqs'[r])
              /\ AddressedProjects(reqs'[r]) # {}
              /\ \A p \in AddressedProjects(reqs'[r]) : ~p.is_active) =>
                 /\ NotFound(reqs'[r])
                 /\ usageAnalytics' = usageAnalytics
          /\ (/\ reqs[r].pc = "project"
              /\ reqs'[r].pc # "project"
              /\ AddressedEndpoints(reqs[r]) # {}
              /\ \A e \in AddressedEndpoints(reqs[r]) : ~e.is_active) =>
                 /\ NotFound(reqs'[r])
                 /\ usageAnalytics' = usageAnalytics]_vars

\* The owner's update of the route named, carrying is_active false, was
\* answered 200.
Deactivated(route) ==
    \E a \in DOMAIN admin :
        /\ admin[a].pc = "done"
        /\ admin[a].route = route
        /\ admin[a].body.is_active = Some(FALSE)
        /\ admin[a].response.status = 200

\* C6 witness: the owner's updates have deactivated the endpoint and then its
\* project; a request that had resolved the project was answered "not found"
\* by the endpoint lookup, and one that arrived later by the project lookup.
C6_Witness ==
    /\ Deactivated("endpoints.put")
    /\ Deactivated("projects.put")
    /\ \E r \in DOMAIN reqs :
          /\ NotFound(reqs[r])
          /\ reqs[r].project # None
          /\ reqs[r].response.error = "Endpoint not found"
          /\ AddressedEndpoints(reqs[r]) # {}
          /\ \A e \in AddressedEndpoints(reqs[r]) : ~e.is_active
    /\ \E r \in DOMAIN reqs :
          /\ NotFound(reqs[r])
          /\ reqs[r].project = None
          /\ reqs[r].response.error = "Project not found"
          /\ AddressedProjects(reqs[r]) # {}
          /\ \A p \in AddressedProjects(reqs[r]) : ~p.is_active

\* C7: a prompt preview never decrypts a credential, never constructs an
\* adapter, never calls a provider and never writes an analytics row; when it
\* succeeds its response data is the combined prompt and nothing else.
C7_PreviewTouchesNoProvider ==
    \A r \in DOMAIN reqs :
        LET q == reqs[r] IN
        q.route = "prompt" =>
            /\ q.pc \notin {"generate", "respond"}
            /\ \A i \in 1..Len(q.calls) : q.calls[i] \in {"parseInput", "keyLookup"}
            /\ q.adapter = None
            /\ q.llmResponse = None
            /\ Len(RowsOf(r)) = 0
            /\ (q.response.success =>
                   /\ DOMAIN q.response.data = {"prompt"}
                   /\ q.response.data.prompt =
                          ApiHelperPrompt(PromptInput(
                              ObjectInput(q.payload), q.endpoint[1].output_schema,
                              q.endpoint[1].instructions, q.endpoint[1].context,
                              q.llmKey[1].provider)))

\* C7 witness: a prompt preview succeeded.
C7_Witness ==
    \E r \in DOMAIN reqs :
        /\ reqs[r].route = "prompt"
        /\ reqs[r].response.status = 200
        /\ reqs[r].response.data.prompt # EmptyText

\* The executions whose generate has settled and whose analytics insert has
\* returned
Settled ==
    {r \in DOMAIN reqs : reqs[r].pc \in {"respond", "done"} /\ reqs[r].llmResponse # None}

\* The executions that called generate
Generating ==
    {r \in DOMAIN reqs : \E i \in 1..Len(reqs[r].calls) : reqs[r].calls[i] = "generate"}

\* C8: concurrent executions of one endpoint do not interfere: each settled
\* execution has exactly one row, that row and its response carry its own
\* outcome and its own usage, and the table holds one row per settled execution.
C8_ConcurrentExecutionsIndependent ==
    /\ Len(usageAnalytics) = Cardinality(Settled)
    /\ \A r \in Generating : reqs[r].pc = "generate" \/ r \in Settled
    /\ \A r \in Settled :
          LET q == reqs[r]
              own == q.llmResponse[1]
          IN /\ Len(RowsOf(r)) = 1
             /\ RowsOf(r)[1].endpoint_id = q.endpoint[1].uuid
             /\ RowsOf(r)[1].success = q.pending.success
             /\ (q.pending.success =>
                    /\ own.ok
                    /\ RowsOf(r)[1].tokens_input = own.usage.promptTokens
                    /\ RowsOf(r)[1].tokens_output = own.usage.completionTokens
                    /\ RowsOf(r)[1].latency_ms = Some(own.latencyMs)
                    /\ q.pending.data.output = own.content
                    /\ q.pending.data.usage.tokens_input = own.usage.promptTokens
                    /\ q.pending.data.usage.tokens_output = own.usage.completionTokens
                    /\ q.pending.data.usage.estimated_cost_cents =
                           RowsOf(r)[1].estimated_cost_cents)
             /\ (~q.pending.success =>
                    /\ q.pending.status = 500
                    /\ q.pending.error = "LLM processing failed: "
                                         \o RowsOf(r)[1].error_message[1]
                    /\ (~own.ok => RowsOf(r)[1].error_message[1] = own.error))
             /\ (q.pc = "done" => q.response.status = q.pending.status)

\* C8 witness: every concurrent execution of the endpoint was answered, one
\* with success and one with failure.
C8_Witness ==
    /\ \A r \in DOMAIN reqs : reqs[r].pc = "done"
    /\ Len(usageAnalytics) = MaxConcurrent
    /\ \E r1, r2 \in DOMAIN reqs :
          /\ reqs[r1].response.status = 200
          /\ reqs[r2].response.status = 500
          /\ reqs[r1].endpoint = reqs[r2].endpoint

\* The configuration carries the credential the provider requires.
HasRequiredCredential(providerType, config) ==
    IF providerType = "llm_server" THEN Truthy(config.endpointUrl)
    ELSE Truthy(config.apiKey)

\* C9: for each of the four provider identifiers the factory, given the
\* provider's credential, returns an adapter whose providerName is the
\* identifier; for any other identifier it fails with the unknown-provider
\* error.
C9_FactoryReturnsNamedAdapter ==
    factory.called =>
        /\ (/\ factory.providerType \in LlmProviders
            /\ HasRequiredCredential(factory.providerType, factory.config)) =>
               /\ factory.result.ok
               /\ factory.result.adapter.providerName = factory.providerType
        /\ factory.providerType \notin LlmProviders =>
               /\ ~factory.result.ok
               /\ factory.result.error =
                      "Unknown provider type: " \o factory.providerType

\* C9 witness: the factory returned the custom-server adapter, by its name.
C9_Witness ==
    /\ factory.called
    /\ factory.providerType = "llm_server"
    /\ factory.result.ok
    /\ factory.result.adapter.providerName = "llm_server"

\* C10: construction fails at once, with the provider's "is required" error,
\* when the required credential is absent or empty; no adapter exists without
\* its credential, so neither buildApiPayload nor generate is ever used on one.
C10_NoAdapterWithoutCredential ==
    factory.called =>
          /\ (/\ factory.providerType \in LlmProviders
              /\ ~HasRequiredCredential(factory.providerType, factory.config)) =>
                 /\ ~factory.result.ok
                 /\ factory.result.error \in
                        {"OpenAI API key is required", "Anthropic API key is required",
                         "Gemini API key is required",
                         "LLM Server endpoint URL is required"}
                 /\ factory.used = ""
          /\ factory.result.ok => factory.result.adapter.credential # ""
          /\ factory.used # "" => factory.result.adapter.credential # ""

\* C10 witness: construction with an empty API key was refused.
C10_Witness ==
    /\ factory.called
    /\ factory.providerType = "openai"
    /\ factory.config.apiKey = Some("")
    /\ ~factory.result.ok
    /\ factory.result.error = "OpenAI API key is required"

(***************************************************************************)
(* C11: the OpenAI payload                                                 *)
(***************************************************************************)
OpenAIPayloadCalled ==
    call.fn = "buildApiPayload" /\ call.args.adapter.providerName = "openai"

\* C11: for every canonical request the payload of the OpenAI adapter holds
\* exactly one tool, a function named structured_response whose parameters are
\* the request's outputSchema unchanged, and a tool_choice that forces the
\* function of that name.
C11_OpenAIPayloadDeclaresForcedTool ==
    OpenAIPayloadCalled =>
        LET tools == Get(call.result, "tools")
        IN /\ tools # None /\ tools[1].t = "array" /\ Len(tools[1].v) = 1
           /\ Path(tools[1].v[1], <<"type">>) = Some(JStr("function"))
           /\ Path(tools[1].v[1], <<"function", "name">>)
                  = Some(JStr("structured_response"))
           /\ Path(tools[1].v[1], <<"function", "parameters">>)
                  = Some(call.args.request.outputSchema)
           /\ Path(call.result, <<"tool_choice", "type">>) = Some(JStr("function"))
           /\ Path(call.result, <<"tool_choice", "function", "name">>)
                  = Path(tools[1].v[1], <<"function", "name">>)

\* C11 witness: the payload built for the schema with the one required string
\* property "name" declares the tool with exactly that schema.
C11_Witness ==
    /\ OpenAIPayloadCalled
    /\ call.args.request.outputSchema = NameSchema
    /\ call.args.request.maxTokens = Some(100)
    /\ Path(call.result, <<"tools">>)[1].v[1]
           = FunctionTool(NameSchema)
    /\ Path(call.result, <<"tool_choice">>) = Some(ForcedFunction)

(***************************************************************************)
(* C12: the Anthropic adapter's reading of a message                       *)
(***************************************************************************)
AnthropicGenerateCalled == call.fn = "AnthropicProvider.generate"

\* The tool_use blocks named structured_response of the message handed over
StructuredBlocks ==
    LET blocks == Get(call.args.reply.body[1], "content")[1].v
    IN {i \in 1..Len(blocks) :
           /\ Get(blocks[i], "type") = Some(JStr("tool_use"))
           /\ Get(blocks[i], "name") = Some(JStr("structured_response"))}

\* C12: generate of the Anthropic adapter succeeds exactly when the message
\* holds a tool_use block named structured_response, and then returns the input
\* of such a block as content; it raises when the message holds none, whatever
\* other blocks it holds.
C12_AnthropicSucceedsIffStructuredBlock ==
    AnthropicGenerateCalled =>
        LET blocks == Get(call.args.reply.body[1], "content")[1].v
        IN /\ call.result.ok <=> StructuredBlocks # {}
           /\ call.result.ok =>
                 \E i \in StructuredBlocks :
                    call.result.content = Get(blocks[i], "input")[1]

(***************************************************************************)
(* C13: the response schema of the Gemini payload                          *)
(***************************************************************************)
GeminiPayloadCalled ==
    call.fn = "buildApiPayload" /\ call.args.adapter.providerName = "gemini"

MetaKeywords == {"$schema", "$id", "definitions", "$defs"}

\* The schema without the meta-keywords at any of its schema nodes: its own
\* keys, the schemas of its properties, and its items
RECURSIVE WithoutMetaKeywords(_)
WithoutMetaKeywords(schema) ==
    LET kept == SelectSeq(schema.v, LAMBDA m : m.k \notin MetaKeywords)
        Child(m) ==
            CASE m.k = "properties" /\ m.v.t = "object" ->
                   Member(m.k, JObj([i \in 1..Len(m.v.v) |->
                              Member(m.v.v[i].k, WithoutMetaKeywords(m.v.v[i].v))]))
              [] m.k = "items" /\ m.v.t = "object" ->
                   Member(m.k, WithoutMetaKeywords(m.v))
              [] OTHER -> m
    IN JObj([i \in 1..Len(kept) |-> Child(kept[i])])

\* C13: the response schema the Gemini adapter places in its payload holds none
\* of $schema, $id, definitions, $defs at any level of the schema, and
\* otherwise equals the request's outputSchema.
C13_GeminiSchemaHasNoMetaKeywords ==
    GeminiPayloadCalled =>
        Path(call.result, <<"generationConfig", "responseSchema">>)
            = Some(WithoutMetaKeywords(call.args.request.outputSchema))

(***************************************************************************)
(* C14: the custom-server adapter's trial order                            *)
(***************************************************************************)
CustomGenerateCalled == call.fn = "CustomLLMProvider.generate"

\* The shapes of a body in their documented order; each gives the answer it
\* carries, or None when the body does not have the shape.
ShapeAnswers(body) ==
    LET choices == Get(body, "choices")
        choice == IF IsArray(choices) /\ choices[1].v # <<>>
                  THEN Some(choices[1].v[1]) ELSE None
        toolCalls == IF choice = None THEN None
                     ELSE Path(choice[1], <<"message", "tool_calls">>)
        blocks == Get(body, "content")
        block == IF IsArray(blocks) /\ blocks[1].v # <<>>
                 THEN Some(blocks[1].v[1]) ELSE None
        Text(o) == IF JTruthy(o) /\ IsString(o) THEN Some(ParseText(o[1])) ELSE None
        Field(key) == IF IsString(Get(body, key))
                      THEN Some(ParseText(Get(body, key)[1])) ELSE None
    IN << \* OpenAI tool call
          IF IsArray(toolCalls) /\ toolCalls[1].v # <<>>
          THEN Text(Path(toolCalls[1].v[1], <<"function", "arguments">>)) ELSE None,
          \* OpenAI message content
          IF choice = None THEN None ELSE Text(Path(choice[1], <<"message", "content">>)),
          \* OpenAI plain-text choice
          IF choice = None THEN None ELSE Text(Get(choice[1], "text")),
          \* Anthropic tool-use block
          IF block # None /\ Get(block[1], "type") = Some(JStr("tool_use"))
             /\ Get(block[1], "input") # None
          THEN Some(Parsed(Get(block[1], "input")[1])) ELSE None,
          \* Anthropic text block
          IF block = None THEN None ELSE Text(Get(block[1], "text")),
          \* generic string fields
          Field("response"), Field("text"), Field("output"),
          \* the whole body
          Some(Parsed(body)) >>

FirstShape(body) ==
    CHOOSE i \in 1..9 :
        /\ ShapeAnswers(body)[i] # None
        /\ \A j \in 1..(i - 1) : ShapeAnswers(body)[j] = None

\* C14: the custom-server adapter takes the answer of a 2xx body from the first
\* shape, in the order OpenAI tool call, OpenAI message content, OpenAI text
\* choice, Anthropic tool-use block, Anthropic text block, response / text /
\* output string field, whole body, that the body has; a body of no earlier
\* shape is the answer in its entirety, not a failure.
C14_CustomParsesFirstMatchingShape ==
    CustomGenerateCalled =>
        LET body == call.args.reply.body[1]
            expected == ShapeAnswers(body)[FirstShape(body)][1]
        IN /\ call.result.ok <=> expected.ok
           /\ call.result.ok => call.result.content = expected.content

(***************************************************************************)
(* C15, C16: the cost estimator                                            *)
(***************************************************************************)
EstimateCostCalled == call.fn = "estimateCost"

\* The rates the table gives a model string: its own entry, else the default
RatesOf(model) ==
    IF model \in CostModels THEN COST_PER_MILLION_TOKENS(model)
    ELSE COST_PER_MILLION_TOKENS("default")

\* C15: estimateCost(model, inputTokens, outputTokens) is
\* inputTokens / 1,000,000 x inputRate + outputTokens / 1,000,000 x outputRate
\* rounded to two decimal places, with the rates of the table entry whose key
\* is the model string and the default rates (100, 300) for every other
\* model string.
C15_EstimateCostIsRatedAndRounded ==
    EstimateCostCalled =>
        call.result = Some(HalfUp(ExactCost(RatesOf(call.args.model),
                                            call.args.inputTokens,
                                            call.args.outputTokens)))

\* C16: estimateCost("gpt-4o-mini", 1000000, 0) returns 0.15, which is 15
\* hundredths.
C16_MiniMillionInputCostsFifteenHundredths ==
    (/\ EstimateCostCalled
     /\ call.args = [model |-> "gpt-4o-mini", inputTokens |-> 1000000,
                     outputTokens |-> 0])
        => call.result = Some(15)

(***************************************************************************)
(* C17: the rendered schema instructions                                   *)
(***************************************************************************)
InstructionsCalled == call.fn = "schemaToPromptInstructions"

\* The members of schema.properties
DeclaredProperties(schema) ==
    IF JTruthy(Get(schema, "properties")) THEN Get(schema, "properties")[1].v ELSE <<>>

\* The key is listed in schema.required
ListedRequired(schema, key) ==
    /\ Has(schema, "required")
    /\ \E i \in 1..Len(Get(schema, "required")[1].v) :
          Get(schema, "required")[1].v[i] = JStr(key)

\* How many lines of the text are the line of the property at the level of
\* the call with the given marker
ListedTimes(text, depth, member, marker) ==
    Cardinality({i \in 1..Len(text) :
        text[i] = PropertyLine(depth, member.k,
                      JsString(JCoalesce(Get(member.v, "type"), JStr("any"))), marker,
                      JsString(JCoalesce(Get(member.v, "description"), JStr(""))))})

\* Every declared property is listed once, with the marker of its being required
ListsEveryPropertyOnce(schema, depth, text) ==
    \A i \in 1..Len(DeclaredProperties(schema)) :
        LET member == DeclaredProperties(schema)[i]
            required == ListedRequired(schema, member.k)
        IN /\ ListedTimes(text, depth, member, RequiredMarker)
                = (IF required THEN 1 ELSE 0)
           /\ ListedTimes(text, depth, member, OptionalMarker)
                = (IF required THEN 0 ELSE 1)

\* C17 as stated: for every schema, schemaToPromptInstructions lists each key
\* of schema.properties exactly once at its own level, marked (required) if
\* and only if the key is listed in schema.required and (optional) otherwise.
C17_EverySchemaListsEachProperty ==
    InstructionsCalled =>
        ListsEveryPropertyOnce(call.args.schema, call.args.depth, call.result)

\* C17 amended: for every schema whose type is object or absent,
\* schemaToPromptInstructions lists each key of schema.properties exactly once
\* at its own level, marked (required) if and only if the key is listed in
\* schema.required and (optional) otherwise.
C17_ObjectSchemaListsEachProperty ==
    (/\ InstructionsCalled
     /\ Get(call.args.schema, "type") \in {None, Some(JStr("object"))})
        => ListsEveryPropertyOnce(call.args.schema, call.args.depth, call.result)

\* An object schema with a required and an optional property was rendered,
\* each on its line.
C17_Witness ==
    /\ InstructionsCalled
    /\ Get(call.args.schema, "type") = Some(JStr("object"))
    /\ Len(DeclaredProperties(call.args.schema)) = 2
    /\ ListedRequired(call.args.schema, "name")
    /\ ~ListedRequired(call.args.schema, "age")
    /\ call.result = <<PropertyLine(0, "name", "string", RequiredMarker, "The label"),
                       PropertyLine(0, "age", "integer", OptionalMarker, "")>>

(***************************************************************************)
(* C18: the example generated from a schema                                *)
(***************************************************************************)
ExampleCalled == call.fn = "generateSchemaExample"

\* The schema uses enum or default, at its top or below
RECURSIVE UsesChoice(_)
UsesChoice(schema) ==
    \/ Has(schema, "enum")
    \/ Has(schema, "default")
    \/ \E i \in 1..Len(DeclaredProperties(schema)) :
          UsesChoice(DeclaredProperties(schema)[i].v)
    \/ (Has(schema, "items") /\ UsesChoice(Get(schema, "items")[1]))

\* The value has the shape the schema declares; a schema without a type, or
\* of a type other than the six, declares none.
RECURSIVE ShapeMatches(_, _)
ShapeMatches(schema, value) ==
    LET type == Get(schema, "type")
        properties == DeclaredProperties(schema)
    IN CASE type = Some(JStr("object")) ->
              /\ value.t = "object"
              /\ Keys(value) = [i \in 1..Len(properties) |-> properties[i].k]
              /\ \A i \in 1..Len(properties) :
                    ShapeMatches(properties[i].v, value.v[i].v)
         [] type = Some(JStr("array")) ->
              /\ value.t = "array"
              /\ Has(schema, "items") =>
                    \A i \in 1..Len(value.v) :
                        ShapeMatches(Get(schema, "items")[1], value.v[i])
         [] type = Some(JStr("string")) -> value.t = "string"
         [] type \in {Some(JStr("number")), Some(JStr("integer"))} -> value.t = "number"
         [] type = Some(JStr("boolean")) -> value.t = "boolean"
         [] OTHER -> TRUE

\* C18: for every tree-shaped schema that uses neither enum nor default at any
\* level, generateSchemaExample returns a value of the shape the declared
\* types give: an object with exactly the declared property keys for type
\* object, an array for type array, and a string, number or boolean for the
\* types string, number and integer, boolean.
C18_ExampleMatchesDeclaredTypes ==
    (ExampleCalled /\ ~UsesChoice(call.args.schema))
        => ShapeMatches(call.args.schema, call.result)

(***************************************************************************)
(* C19, C20: the two prompt forms                                          *)
(***************************************************************************)
PromptCalled == call.fn = "ApiHelper.prompt"
LegacyCalled == call.fn = "ApiHelper.buildLegacyPrompts"

\* The lines of a text that are the given line
LinesAt(text, line) == {i \in 1..Len(text) : text[i] = line}

\* The first of them; 0 when the text has no such line
LineOf(text, line) ==
    IF LinesAt(text, line) = {} THEN 0
    ELSE CHOOSE i \in LinesAt(text, line) : \A j \in LinesAt(text, line) : i <= j

ResponseFormatHeading == "## Response Format"
FieldsSentence == "Your response must include the following fields:"

\* The rendered schema instructions of a prompt: the lines between the
\* sentence that introduces them and the blank line ahead of the next heading
InstructionsBlock(text, exampleHeading) ==
    LET from == LineOf(text, FieldsSentence)
        to == IF LineOf(text, exampleHeading) # 0 THEN LineOf(text, exampleHeading)
              ELSE LineOf(text, ResponseFormatHeading)
    IN IF from = 0 THEN None ELSE Some(SubSeq(text, from + 1, to - 2))

\* The example block of a prompt: the lines between its heading and the
\* blank line ahead of the response format
ExampleBlock(text, exampleHeading) ==
    LET from == LineOf(text, exampleHeading)
    IN IF from = 0 THEN None
       ELSE Some(SubSeq(text, from + 1, LineOf(text, ResponseFormatHeading) - 2))

SameBlocks(combined, system) ==
    /\ InstructionsBlock(combined, "## Example Output")
         = InstructionsBlock(system, "## Example Output Structure")
    /\ ExampleBlock(combined, "## Example Output")
         = ExampleBlock(system, "## Example Output Structure")

\* C19: for the same PromptInput the combined prompt and the legacy system
\* prompt carry the same rendered schema instructions and the same example
\* block, and the one has an example block exactly when the other has.
C19_BothFormsRenderSameBlocks ==
    /\ PromptCalled =>
          SameBlocks(call.result, buildLegacyPrompts(call.args.input).system)
    /\ LegacyCalled =>
          SameBlocks(ApiHelperPrompt(call.args.input), call.result.system)

\* The legacy form was built for a complex schema: its system prompt has the
\* instructions and an example block.
C19_Witness ==
    /\ LegacyCalled
    /\ call.args.input.outputSchema # None
    /\ isComplexSchema(call.args.input.outputSchema[1])
    /\ ExampleBlock(call.result.system, "## Example Output Structure") # None
    /\ ExampleBlock(call.result.system, "## Example Output Structure")
         = ExampleBlock(ApiHelperPrompt(call.args.input), "## Example Output")
    /\ InstructionsBlock(call.result.system, "## Example Output Structure")
         \notin {None, Some(EmptyText)}

\* The schema has more than three properties, or a property of type object
\* or array
Complex(schema) ==
    \/ Len(DeclaredProperties(schema)) > 3
    \/ \E i \in 1..Len(DeclaredProperties(schema)) :
          Get(DeclaredProperties(schema)[i].v, "type")
              \in {Some(JStr("object")), Some(JStr("array"))}

\* The first lines of the sections of the combined prompt, in their order,
\* each with the condition under which the section is there; the provider
\* note is the section without a condition of its own.
SectionsOf(input) ==
    << [line |-> "# Instructions", present |-> TRUE],
       [line |-> "## Task", present |-> Truthy(input.description)],
       [line |-> "## Context", present |-> Truthy(input.context)],
       [line |-> "## Required Output Fields", present |-> input.outputSchema # None],
       [line |-> "## Example Output",
        present |-> input.outputSchema # None /\ Complex(input.outputSchema[1])],
       [line |-> ResponseFormatHeading, present |-> TRUE],
       [line |-> "# Input", present |-> TRUE] >>

IsProviderNote(line) ==
    \E provider \in LlmProviders : line = "<!-- " \o getProviderNotes(provider) \o " -->"

\* C20: the combined prompt has its sections in the order provider note,
\* instruction header, Task, Context, Required Output Fields, Example Output,
\* JSON-only directive, Input; Task and Context exactly when the description,
\* respectively the context, is non-empty, Required Output Fields exactly when
\* an outputSchema is present, Example Output exactly when that schema is
\* complex, and the directive and the Input section always.
C20_CombinedPromptSectionsInOrder ==
    PromptCalled =>
        LET text == call.result
            sections == SectionsOf(call.args.input)
        IN /\ \A k \in 1..Len(sections) :
                 Cardinality(LinesAt(text, sections[k].line))
                     = (IF sections[k].present THEN 1 ELSE 0)
           /\ \A k \in 1..Len(sections), l \in 1..Len(sections) :
                 (k < l /\ sections[k].present /\ sections[l].present)
                     => LineOf(text, sections[k].line) < LineOf(text, sections[l].line)
           /\ \A i \in 1..Len(text) : IsProviderNote(text[i]) => i = 1
           /\ text[LineOf(text, ResponseFormatHeading) + 1]
                = "Respond with valid JSON only. Do not include any text outside the JSON object."

\* A combined prompt with every section: note, task, context, fields and
\* example.
C20_Witness ==
    /\ PromptCalled
    /\ IsProviderNote(call.result[1])
    /\ \A k \in 1..7 : LineOf(call.result, SectionsOf(call.args.input)[k].line) # 0

\* No two projects of one user share a name, no two endpoints of one project.
NamesUnique ==
    /\ \A p, q \in projects :
          (p.user_id = q.user_id /\ p.project_name = q.project_name) => p.uuid = q.uuid
    /\ \A e, f \in endpoints :
          (e.project_id = f.project_id /\ e.endpoint_name = f.endpoint_name)
              => e.uuid = f.uuid

\* The create or rename r carries a name that another row of the same user,
\* or of the same project, has in the store as it is.
CarriesTakenName(r) ==
    CASE r.route = "projects.post" ->
           ProjectNameTaken(projects, r.caller, r.body.project_name[1], "")
      [] r.route = "projects.put" ->
           /\ r.body.project_name # None
           /\ ProjectNameTaken(projects, r.caller, r.body.project_name[1], r.projectId)
      [] r.route = "endpoints.post" ->
           \E e \in endpoints : /\ e.project_id = r.projectId
                                /\ e.endpoint_name = r.body.endpoint_name[1]
      [] r.route = "endpoints.put" ->
           /\ r.body.endpoint_name # None
           /\ \E e \in endpoints : /\ e.project_id = r.projectId
                                   /\ e.endpoint_name = r.body.endpoint_name[1]
                                   /\ e.uuid # r.endpointId
      [] OTHER -> FALSE

\* Request a is answered in this step, having passed validation, the ownership
\* checks and the lookups of the rows it names.
AnsweredPastLookups(a) ==
    /\ admin[a].pc # "done"
    /\ admin'[a].pc = "done"
    /\ admin'[a].response.status \notin {400, 403, 404}

\* C21: after any interleaving of create and update requests no two projects
\* of one user share a project_name and no two endpoints of one project share
\* an endpoint_name, and a create or rename that would produce a duplicate is
\* answered 409 and leaves the store unchanged.
C21_NamesUniqueAndDuplicateAnswered409 ==
    /\ []NamesUnique
    /\ [][\A a \in DOMAIN admin :
            (AnsweredPastLookups(a) /\ CarriesTakenName(admin'[a]))
                => /\ admin'[a].response.status = 409
                   /\ projects' = projects
                   /\ endpoints' = endpoints]_vars

\* The parameters or the body of request r do not parse under the route's
\* schemas.
FailsValidation(r) ==
    \/ ~IsUuid(r.projectId)
    \/ ~IsUuid(r.keyId)
    \/ r.route = "projects.post" /\ ~NameMatches(r.body.project_name[1])
    \/ r.route = "endpoints.post" /\ ~IsUuid(r.body.llm_key_id[1])
    \/ r.route = "keys.post" /\ ~keyCreateSchema(r.body)

\* Request a is answered in this step, and its subject is not the user of its
\* path.
AnsweredForOtherUser(a) ==
    /\ admin[a].pc # "done"
    /\ admin'[a].pc = "done"
    /\ admin'[a].caller # admin'[a].userId

\* C22 as stated: every request to a route of keys, projects, endpoints or
\* analytics whose authenticated subject differs from the userId of the path is
\* answered 403 before any record is read, created, changed or deleted, and the
\* store is unchanged by it.
C22_OtherUserAnswered403 ==
    [][\A a \in DOMAIN admin :
          AnsweredForOtherUser(a)
              => /\ admin'[a].response.status = 403
                 /\ admin'[a].touched = <<>>
                 /\ UNCHANGED <<endpointsTable, projects, endpoints, llmApiKeys, usageAnalytics>>]_vars

\* C22 amended: such a request is answered before any record is read, created,
\* changed or deleted and the store is unchanged by it; the answer is 403 when
\* its parameters and body parse under the route's schemas, and the
\* validator's 400 when they do not.
C22_OtherUserAnsweredBeforeStore ==
    [][\A a \in DOMAIN admin :
          AnsweredForOtherUser(a)
              => /\ admin'[a].response.status =
                        IF FailsValidation(admin'[a]) THEN 400 ELSE 403
                 /\ admin'[a].touched = <<>>
                 /\ UNCHANGED <<endpointsTable, projects, endpoints, llmApiKeys, usageAnalytics>>]_vars

\* Requests for another user's rows were answered: one well-formed, one not.
C22_Witness ==
    /\ admin[1].pc = "done" /\ admin[1].caller # admin[1].userId
    /\ admin[1].route = "endpoints.post" /\ admin[1].response.status = 403
    /\ admin[2].pc = "done" /\ admin[2].caller # admin[2].userId
    /\ admin[2].route = "keys.delete" /\ admin[2].response.status = 400

KeyRoutes == {"keys.list", "keys.get", "keys.post", "keys.put", "keys.delete"}

\* The ciphertexts and initialization vectors the rows hold
StoredSecrets(rows) ==
    ({k.encrypted_api_key : k \in rows} \cup {k.encryption_iv : k \in rows}) \ {None}

\* The item of a response carries neither secret of the rows it was made from.
CarriesNoSecret(item, rows) ==
    /\ "encrypted_api_key" \notin DOMAIN item
    /\ "encryption_iv" \notin DOMAIN item
    /\ Some(item.uuid) \notin StoredSecrets(rows)
    /\ Some(item.provider) \notin StoredSecrets(rows)
    /\ item.endpoint_url \notin StoredSecrets(rows)

\* C23: no response of a key route (list, get, create, update, delete) contains
\* the stored ciphertext or initialization vector of a key; it reports
\* has_api_key, which is true exactly when a ciphertext is stored.
C23_KeyResponsesCarryNoSecret ==
    \A a \in DOMAIN admin :
        (admin[a].pc = "done" /\ admin[a].route \in KeyRoutes)
            => IF admin[a].response.success
               THEN /\ {item.uuid : item \in admin[a].response.data}
                          = {k.uuid : k \in admin[a].rows}
                    /\ \A item \in admin[a].response.data :
                          /\ CarriesNoSecret(item, admin[a].rows)
                          /\ \A k \in admin[a].rows :
                                k.uuid = item.uuid
                                    => (item.has_api_key <=> k.encrypted_api_key # None)
               ELSE admin[a].response.data = <<>>

\* A key was created with an API key and answered has_api_key: true, and a key
\* stored without one was read and answered has_api_key: false.
C23_Witness ==
    /\ admin[1].pc = "done" /\ admin[1].route = "keys.post"
    /\ admin[1].response.success
    /\ \E item \in admin[1].response.data : item.has_api_key
    /\ \E k \in admin[1].rows : k.encrypted_api_key # None
    /\ admin[2].pc = "done" /\ admin[2].route = "keys.get"
    /\ admin[2].response.success
    /\ \E item \in admin[2].response.data : ~item.has_api_key

\* Every endpoint's llm_key_id is the uuid of a stored key whose owner owns the
\* endpoint's project.
KeysOwned ==
    \A e \in endpoints :
        \E p \in projects, k \in llmApiKeys :
            /\ p.uuid = e.project_id
            /\ k.uuid = e.llm_key_id
            /\ k.user_id = p.user_id

\* The endpoint create or update r names a key that is not stored or is not
\* its caller's.
NamesForeignKey(r) ==
    /\ r.route \in {"endpoints.post", "endpoints.put"}
    /\ r.body.llm_key_id # None
    /\ \A k \in llmApiKeys : ~(k.uuid = r.body.llm_key_id[1] /\ k.user_id = r.caller)

Refused(r, status, error) ==
    /\ r.pc = "done"
    /\ r.response.status = status
    /\ r.response.error = error
    /\ ~r.response.success

ResolvableProjects(q) ==
    {p \in projects : /\ p.project_name = q.projectName
                      /\ p.is_active
                      /\ p.user_id \in findUserByOrgPath(q.org)}

\* The route's input extraction accepts what the request carries: query
\* parameters always, a body when it parses.
InputExtracted(q) == q.method = "GET" \/ q.payload.valid

\* The request q was answered by the check named, and by nothing after it.
StoppedAt(q, status, calls) ==
    /\ q.pc = "done"
    /\ q.response.status = status
    /\ ~q.response.success
    /\ q.calls = calls
    /\ q.llmKey = None
    /\ q.adapter = None

\* The request q has passed the checks up to the one at position pc and holds
\* what they read; nothing after them has been done.
PassedTo(q, pc, calls) ==
    /\ q.pc = pc
    /\ q.calls = calls
    /\ q.llmKey = None
    /\ q.adapter = None

\* C24: the orchestrator checks a request in the order project, endpoint, HTTP
\* verb, input extraction, credential record and answers with the error of the
\* first check that fails (404, 404, 405, 400, 500) without performing any
\* later step; decryption, adapter construction and the provider call happen
\* only after all five checks pass.
C24_ChecksInFixedOrder ==
    [][\A r \in DOMAIN reqs :
          /\ (/\ reqs[r].pc = "idle" /\ reqs'[r].pc # "idle"
              /\ aiParamSchema(reqs'[r])) =>
                \/ /\ StoppedAt(reqs'[r], 404, <<>>)
                   /\ reqs'[r].project = None /\ reqs'[r].endpoint = None
                   /\ \/ ResolvableProjects(reqs'[r]) = {}
                      \/ Cardinality(findUserByOrgPath(reqs'[r].org)) > 1
                \/ /\ PassedTo(reqs'[r], "project", <<>>)
                   /\ reqs'[r].project # None /\ reqs'[r].endpoint = None
                   /\ reqs'[r].project[1] \in ResolvableProjects(reqs'[r])
          /\ (reqs[r].pc = "project" /\ reqs'[r].pc # "project") =>
                IF \A e \in AddressedEndpoints(reqs[r]) : ~e.is_active
                THEN /\ StoppedAt(reqs'[r], 404, <<>>)
                     /\ reqs'[r].response.error = "Endpoint not found"
                     /\ reqs'[r].endpoint = None
                ELSE /\ reqs'[r].endpoint # None
                     /\ reqs'[r].endpoint[1] \in AddressedEndpoints(reqs[r])
                     /\ reqs'[r].endpoint[1].is_active
                     /\ IF reqs'[r].endpoint[1].http_method # reqs[r].method
                        THEN StoppedAt(reqs'[r], 405, <<>>)
                        ELSE IF ~InputExtracted(reqs[r])
                        THEN StoppedAt(reqs'[r], 400, <<"parseInput">>)
                        ELSE PassedTo(reqs'[r], "endpoint", <<"parseInput">>)
          /\ (reqs[r].pc = "endpoint" /\ reqs'[r].pc # "endpoint") =>
                IF \A k \in llmApiKeys :
                      ~(k.uuid = reqs[r].endpoint[1].llm_key_id /\ k.is_active)
                THEN /\ StoppedAt(reqs'[r], 500, <<"parseInput", "keyLookup">>)
                     /\ reqs'[r].response.error = "LLM API key not found or inactive"
                ELSE /\ reqs'[r].llmKey # None
                     /\ reqs'[r].llmKey[1].uuid = reqs[r].endpoint[1].llm_key_id
                     /\ SubSeq(reqs'[r].calls, 1, 2) = <<"parseInput", "keyLookup">>
          /\ (\E i \in 1..Len(reqs'[r].calls) :
                 reqs'[r].calls[i] \in {"decryptApiKey", "createLLMProvider",
                                        "buildApiPayload", "generate"}) =>
                /\ reqs'[r].project # None
                /\ reqs'[r].endpoint # None
                /\ reqs'[r].llmKey # None
                /\ SubSeq(reqs'[r].calls, 1, 2) = <<"parseInput", "keyLookup">>]_vars

\* The text has the heading as a line, and the body as the line under it.
UnderHeading(text, heading, body) ==
    \E i \in LinesAt(text, heading) : i < Len(text) /\ text[i + 1] = body

\* The task text of an endpoint's definition: the rows keep it in the
\* description column, the one the create and update handlers write.
TaskText(endpoint) == endpoint.description

\* C25: for an endpoint whose definition carries a non-empty task text (its
\* instructions), the preview prompt contains the text under its Task heading,
\* and the system prompt of the request sent to the provider contains it
\* under its task description heading.
C25_InstructionsReachTheModel ==
    \A r \in DOMAIN reqs :
        (reqs[r].endpoint # None /\ Truthy(TaskText(reqs[r].endpoint[1])))
            => /\ (reqs[r].route = "prompt" /\ reqs[r].pc = "done"
                      /\ reqs[r].response.success)
                    => UnderHeading(reqs[r].response.data.prompt, "## Task",
                                    TaskText(reqs[r].endpoint[1])[1])
               /\ (reqs[r].route = "ai" /\ reqs[r].llmRequest # None)
                    => UnderHeading(reqs[r].llmRequest[1].systemPrompt[1],
                                    "## Task Description",
                                    TaskText(reqs[r].endpoint[1])[1])

GenerateUsageCalled == call.fn = "generate"

\* The count a usage object reports under either of its two names; zero when
\* it reports neither, or when there is no usage object.
ReportedCount(usage, name, otherName) ==
    IF usage = None THEN 0
    ELSE IF usage[1][name] # None THEN usage[1][name][1]
    ELSE IF usage[1][otherName] # None THEN usage[1][otherName][1]
    ELSE 0

\* C26: every adapter's canonical usage takes each count from whichever naming
\* the provider returned (prompt_tokens / completion_tokens or input_tokens /
\* output_tokens), sets an absent count to zero, and sets totalTokens to
\* promptTokens + completionTokens whenever the provider reports no total; all
\* three counts are non-negative integers.
C26_UsageCountsResolved ==
    (GenerateUsageCalled /\ call.result.ok) =>
        LET reported == call.args.reply.usage
            prompt == ReportedCount(reported, "prompt_tokens", "input_tokens")
            completion == ReportedCount(reported, "completion_tokens", "output_tokens")
        IN /\ call.result.usage.promptTokens = Some(prompt)
           /\ call.result.usage.completionTokens = Some(completion)
           /\ call.result.usage.totalTokens =
                 IF reported # None /\ reported[1].total_tokens # None
                 THEN reported[1].total_tokens
                 ELSE Some(prompt + completion)
           /\ \A count \in {call.result.usage.promptTokens,
                            call.result.usage.completionTokens,
                            call.result.usage.totalTokens} :
                 count # None /\ count[1] \in Nat

(***************************************************************************)
(* C27: what the custom-server adapter takes from an answer text           *)
(***************************************************************************)
CustomTextCalled ==
    /\ CustomGenerateCalled
    /\ \E text \in AnswerTexts : call.args.reply.body[1] = TextBody(text)

\* Where the bracket that is open at piece i closes, depth brackets being open
\* there; 0 when it does not close
RECURSIVE ClosingAt(_, _, _)
ClosingAt(pieces, i, depth) ==
    IF i > Len(pieces) THEN 0
    ELSE IF pieces[i] \in {"{", "["} THEN ClosingAt(pieces, i + 1, depth + 1)
    ELSE IF pieces[i] \in {"}", "]"}
    THEN IF depth = 1 THEN i ELSE ClosingAt(pieces, i + 1, depth - 1)
    ELSE ClosingAt(pieces, i + 1, depth)

OpeningBrackets(pieces) == {i \in DOMAIN pieces : pieces[i] \in {"{", "["}}

\* The first top-level bracket-delimited value of a text
FirstTopLevelValue(pieces) ==
    IF OpeningBrackets(pieces) = {} THEN None
    ELSE IF ClosingAt(pieces, Least(OpeningBrackets(pieces)) + 1, 1) = 0 THEN None
    ELSE Some(SubSeq(pieces, Least(OpeningBrackets(pieces)),
                     ClosingAt(pieces, Least(OpeningBrackets(pieces)) + 1, 1)))

\* The text the documented order chooses
ChosenText(text) ==
    Extracted(Pieces(text), codeBlockMatch(Pieces(text)),
              FirstTopLevelValue(Pieces(text)))

\* C27: the custom-server adapter takes from an answer text the content of a
\* fenced code block when that content parses as JSON, otherwise the first
\* top-level bracket-delimited value of the text when it parses as JSON,
\* otherwise the trimmed text; generate fails when the chosen text does not
\* parse and otherwise returns what it parses to.
C27_ExtractsFencedThenFirstBracketedThenRaw ==
    CustomTextCalled =>
        LET chosen == JSONParse(ChosenText(call.args.reply.body[1].v[1].v.v))
        IN /\ call.result.ok <=> chosen # None
           /\ call.result.ok => call.result.content = chosen[1]

(***************************************************************************)
(* C28: the Input section of the combined prompt                           *)
(***************************************************************************)
\* The lines of the Input section under its heading and its lead-in
InputSection(text) == SubSeq(text, LineOf(text, "# Input") + 4, Len(text))

\* The bullet list of an object: a "- key: value" line per key, and for a key
\* whose value is an object a "- key:" line with the value's own list one
\* level deeper
BulletList(entries) ==
    JoinLines([i \in 1..Len(entries) |->
                  IF entries[i].type = "object"
                  THEN <<"- " \o entries[i].key \o ":">>
                       \o Prefixed("    ",
                              [j \in 1..Len(entries[i].entries) |->
                                  "- " \o entries[i].entries[j].key \o ": "
                                      \o entries[i].entries[j].json])
                  ELSE <<"- " \o entries[i].key \o ": " \o entries[i].json>>])

\* C28: in the Input section of a prompt, input that is a JSON object is
\* rendered as a bullet list "- key: value" with one extra indent level for
\* object-valued keys, and input that is not a JSON object (a string, a
\* number, an array or null) is rendered as its direct JSON serialization,
\* never as a bullet list.
C28_InputSectionBulletsOnlyForObjects ==
    PromptCalled =>
        LET inputData == call.args.input.inputData
        IN InputSection(call.result)
             = (IF inputData.kind = "object" THEN BulletList(inputData.entries)
                ELSE <<JSONStringify(inputData)>>)

(***************************************************************************)
(* C29: which tenant an organization path stands for                       *)
(***************************************************************************)
\* The path is the one the user's settings carry, or no settings carry it and
\* it is the first 8 characters of the user's UUID without its hyphens.
Identifies(organizationPath, user) ==
    \/ \E s \in UserSettings : /\ s.organization_path = organizationPath
                               /\ s.user_id = user
    \/ /\ \A s \in UserSettings : s.organization_path # organizationPath
       /\ organizationPath = SubSeq(StripHyphens(user), 1, 8)

\* The tenants whose project the answered request q was run against
TenantsOf(q) ==
    IF q.endpoint = None THEN {}
    ELSE {p.user_id : p \in {x \in projects : x.uuid = q.endpoint[1].project_id}}

\* C29: an organization path resolves to a user only when that user's settings
\* carry exactly that path or, failing any such settings row, when the path is
\* the first 8 characters of that user's UUID with the hyphens removed; a
\* path that is neither is answered 404 'Organization not found', and no
\* request runs against a project of a tenant its path does not identify.
C29_PathResolvesOnlyItsTenant ==
    \A r \in DOMAIN reqs :
        (reqs[r].pc = "done" /\ reqs[r].route # "legacy") =>
            /\ \A user \in TenantsOf(reqs[r]) : Identifies(reqs[r].org, user)
            /\ (\A user \in Users : ~Identifies(reqs[r].org, user))
                   => reqs[r].response = errorResponse(404, "Organization not found")

====
